---- MODULE Spec2Model ----
(***************************************************************************)
(* Model of the botworld asset generators:                                 *)
(*   scripts/generate-world-assets.py  ("world")                           *)
(*   scripts/generate-assets.py        ("assets")                          *)
(*   scripts/generate-new-tiles.py     ("tiles")                           *)
(* The state is the filesystem under ASSETS_DIR, the command-line options, *)
(* the counters of main() and the position of the running script.  The     *)
(* external image service and the decodability of what it returns are      *)
(* nondeterministic.                                                       *)
(***************************************************************************)
EXTENDS Integers, Sequences, FiniteSets, TLC

\* ---------------------------------------------------------------- bounds
\* Number of categories the registry is cut down to, each category to its
\* first entry.
NumRecords == 2
\* Largest value of the retries parameter tried on generate_image alone.
MaxRetries == 3
\* Number of successive invocations of the script (SpecRerun).
MaxRuns == 2

\* ------------------------------------------------------ program constants
\* generate_image(..., retries: int = 2)
DefaultRetries == 2
\* time.sleep(2) after a response without image data
NoImageWait == 2
\* time.sleep(3) after an exception
ErrorWait == 3

\* ---------------------------------------------------------------- catalog
\* STYLE_PREFIX of generate-world-assets.py.
STYLE_PREFIX ==
    "2D pixel art, isometric view, fantasy RPG style, warm color palette, soft shadows, 16-bit era aesthetic, transparent background, game asset, consistent top-left lighting, clean crisp pixel edges"

\* Mutant: the width is taken from the title, not from dimensions.
MakeSpecWidthFromTitle(title, description, dimensions, category, extra_style) ==
    [marketing_image |->
       [meta |-> [title |-> title],
        subject |-> [name |-> title,
                     variant |-> category,
                     physical_properties |-> [width_px |-> Len(title),
                                              height_px |-> dimensions.height]],
        style |-> [art_direction |-> STYLE_PREFIX,
                   extra |-> extra_style,
                   description |-> description]]]

\* make_spec: the fields of the spec that the program reads back (the title,
\* the category, the dimensions and the style block).
MakeSpec(title, description, dimensions, category, extra_style) ==
    [marketing_image |->
       [meta |-> [title |-> title],
        subject |-> [name |-> title,
                     variant |-> category,
                     physical_properties |-> [width_px |-> dimensions.width,
                                              height_px |-> dimensions.height]],
        style |-> [art_direction |-> STYLE_PREFIX,
                   extra |-> extra_style,
                   description |-> description]]]

\* Mutant: the directory of a path is dropped.
PathNameOnly(parent, stem, suffix) == [parent |-> "", stem |-> stem, suffix |-> suffix]

\* A relative path as pathlib takes it apart: "ui/emotions/happy.png" is
\* Path("ui/emotions", "happy", ".png").
Path(parent, stem, suffix) == [parent |-> parent, stem |-> stem, suffix |-> suffix]

TILE_DIM == [width |-> 48, height |-> 48]
BUILDING_DIM == [width |-> 96, height |-> 128]
RESOURCE_DIM == [width |-> 32, height |-> 32]
ITEM_DIM == [width |-> 24, height |-> 24]
CHAR_DIM == [width |-> 48, height |-> 64]
MINIMAP_DIM == [width |-> 12, height |-> 12]
EMOTION_DIM == [width |-> 16, height |-> 16]
ACTION_DIM == [width |-> 16, height |-> 16]
BUBBLE_DIM == [width |-> 64, height |-> 48]

TILE_STYLE ==
    "isometric diamond-shaped terrain tile, top-down 2:1 ratio, 3D block with visible top face and two darker side faces for depth"
BUILDING_STYLE ==
    "isometric building structure, detailed architectural pixel art, slightly larger than terrain tiles, sits on ground"
RESOURCE_STYLE ==
    "small game resource object sprite, clear silhouette, recognizable at small size"
ITEM_STYLE ==
    "game inventory icon, clean and recognizable at very small size, simple but charming pixel art, item on transparent background"
CHAR_STYLE ==
    "chibi/super-deformed RPG character sprite, large head (40% of body), big expressive eyes, small body, front-facing view"
MINIMAP_STYLE ==
    "tiny minimap marker icon, extremely simple, 2-3 colors max, must be recognizable at 12x12 pixels"
EMOTION_STYLE ==
    "small emoji-style emotion bubble icon, expressive face, simple shapes, cute"
ACTION_STYLE ==
    "small action indicator icon, simple and clear silhouette, game HUD style"
BUBBLE_STYLE ==
    "speech bubble UI frame element, clean rounded shape with tail/pointer"

TERRAIN_TILES == <<
    <<Path("tiles", "grass_plains", ".png"),
      MakeSpec("Grass Plains",
               "Lush green grassland tile with small grass blade details and subtle ground texture. Vibrant spring green color.",
               TILE_DIM, "terrain", TILE_STYLE)>>,
    <<Path("tiles", "grass_flowers", ".png"),
      MakeSpec("Grass with Flowers",
               "Green grass tile decorated with colorful small wildflowers - red, yellow, purple dots scattered naturally across the surface.",
               TILE_DIM, "terrain", TILE_STYLE)>>,
    <<Path("tiles", "forest_light", ".png"),
      MakeSpec("Light Forest",
               "Sparse forest tile with a few small deciduous trees on green grass, dappled sunlight visible on ground. Light green canopy.",
               TILE_DIM, "terrain", TILE_STYLE)>>,
    <<Path("tiles", "forest_dense", ".png"),
      MakeSpec("Dense Forest",
               "Thick dense forest tile with overlapping dark green tree canopies, almost no ground visible. Deep emerald green, ancient trees.",
               TILE_DIM, "terrain", TILE_STYLE)>>,
    <<Path("tiles", "forest_autumn", ".png"),
      MakeSpec("Autumn Forest",
               "Forest tile with beautiful autumn-colored trees - orange, red, golden yellow foliage. Fallen leaves on ground.",
               TILE_DIM, "terrain", TILE_STYLE)>>,
    <<Path("tiles", "mountain_low", ".png"),
      MakeSpec("Low Mountain",
               "Rocky low mountain/hill tile with grey-brown rocks, some grass patches, rough terrain. Not snow-capped.",
               TILE_DIM, "terrain", TILE_STYLE)>>,
    <<Path("tiles", "mountain_high", ".png"),
      MakeSpec("High Mountain",
               "Tall snow-capped mountain peak tile. White snow on top, grey rock below, imposing and majestic.",
               TILE_DIM, "terrain", TILE_STYLE)>>,
    <<Path("tiles", "mountain_rocky", ".png"),
      MakeSpec("Rocky Mountain",
               "Bare rocky mountain tile with exposed grey and brown stone, jagged edges, no vegetation. Raw stone texture.",
               TILE_DIM, "terrain", TILE_STYLE)>>,
    <<Path("tiles", "water_shallow", ".png"),
      MakeSpec("Shallow Water",
               "Clear shallow water tile with light blue color, visible sandy bottom, gentle small wave ripples, white sparkle highlights.",
               TILE_DIM, "terrain", TILE_STYLE)>>,
    <<Path("tiles", "water_deep", ".png"),
      MakeSpec("Deep Water",
               "Deep dark ocean water tile with dark navy blue color, subtle deep wave patterns. Very dark blue, no land visible.",
               TILE_DIM, "terrain", TILE_STYLE)>>,
    <<Path("tiles", "water_river", ".png"),
      MakeSpec("River",
               "Flowing river water tile with medium blue color, visible current flow lines, small white foam details on surface.",
               TILE_DIM, "terrain", TILE_STYLE)>>,
    <<Path("tiles", "desert_sand", ".png"),
      MakeSpec("Sand Desert",
               "Hot sandy desert tile with golden-tan sand, subtle wind-blown ripple patterns, warm dry feeling.",
               TILE_DIM, "terrain", TILE_STYLE)>>,
    <<Path("tiles", "desert_oasis", ".png"),
      MakeSpec("Desert Oasis",
               "Desert oasis tile with a small pool of clear blue water surrounded by sand, with one or two small palm trees and green vegetation.",
               TILE_DIM, "terrain", TILE_STYLE)>>,
    <<Path("tiles", "swamp", ".png"),
      MakeSpec("Swamp",
               "Murky swamp tile with dark greenish-brown muddy water, small cattails or reeds, mossy texture. Dark olive green and brown.",
               TILE_DIM, "terrain", TILE_STYLE)>>,
    <<Path("tiles", "snow_field", ".png"),
      MakeSpec("Snow Field",
               "Pristine white snow-covered flat tile with ice crystal sparkles, gentle blue shadows. Cool white and light blue.",
               TILE_DIM, "terrain", TILE_STYLE)>>,
    <<Path("tiles", "snow_forest", ".png"),
      MakeSpec("Snow Forest",
               "Snow-covered forest tile with evergreen pine trees dusted in white snow, frozen ground. Winter wonderland look.",
               TILE_DIM, "terrain", TILE_STYLE)>>,
    <<Path("tiles", "farmland", ".png"),
      MakeSpec("Farmland",
               "Plowed farmland tile with neat parallel furrow lines in rich brown soil, small green crop seedlings growing in rows.",
               TILE_DIM, "terrain", TILE_STYLE)>>,
    <<Path("tiles", "road_dirt", ".png"),
      MakeSpec("Dirt Road",
               "Earthy brown dirt road tile with worn path marks, small pebble details, lighter center where foot traffic goes.",
               TILE_DIM, "terrain", TILE_STYLE)>>,
    <<Path("tiles", "road_stone", ".png"),
      MakeSpec("Stone Road",
               "Cobblestone paved road tile with grey stone blocks arranged in a pattern, mortar lines between stones, well-maintained look.",
               TILE_DIM, "terrain", TILE_STYLE)>>,
    <<Path("tiles", "beach", ".png"),
      MakeSpec("Beach",
               "Sandy beach tile at the water's edge with golden sand, tiny seashell details, wet darker sand near water line.",
               TILE_DIM, "terrain", TILE_STYLE)>>
>>

POI_BUILDINGS == <<
    <<Path("buildings", "tavern", ".png"),
      MakeSpec("Tavern",
               "Cozy wooden tavern building with timber frame walls, orange-brown thatched roof, a hanging wooden sign with a mug icon, warm yellow light glowing from windows, small chimney with smoke.",
               BUILDING_DIM, "building", BUILDING_STYLE)>>,
    <<Path("buildings", "marketplace", ".png"),
      MakeSpec("Marketplace",
               "Open-air marketplace with colorful striped canvas tent/awning (red and white stripes), wooden market stalls displaying goods - barrels, crates, hanging items. Busy trading atmosphere.",
               BUILDING_DIM, "building", BUILDING_STYLE)>>,
    <<Path("buildings", "blacksmith", ".png"),
      MakeSpec("Blacksmith",
               "Stone and wood blacksmith workshop with a glowing orange forge/furnace visible inside, an anvil outside, hanging tools, dark metal roof. Smoke rising from chimney.",
               BUILDING_DIM, "building", BUILDING_STYLE)>>,
    <<Path("buildings", "library", ".png"),
      MakeSpec("Library",
               "Large stone library building with tall arched windows, through which bookshelves are visible. Ornate entrance with columns, slate blue roof, scholarly and grand appearance.",
               BUILDING_DIM, "building", BUILDING_STYLE)>>,
    <<Path("buildings", "temple", ".png"),
      MakeSpec("Temple",
               "Majestic stone temple with tall spire/dome, golden ornamental details, grand stone steps leading to entrance, stained glass window, holy and serene atmosphere.",
               BUILDING_DIM, "building", BUILDING_STYLE)>>,
    <<Path("buildings", "farm", ".png"),
      MakeSpec("Farm",
               "Rustic farm building with red barn, wooden fence enclosure, visible crop rows or hay bales nearby, a small windmill or silo. Pastoral and peaceful.",
               BUILDING_DIM, "building", BUILDING_STYLE)>>,
    <<Path("buildings", "mine_entrance", ".png"),
      MakeSpec("Mine Entrance",
               "Dark cave mine entrance carved into rock face, supported by wooden timber beams, small rail track leading inside, mining cart, a lantern hanging at entrance.",
               BUILDING_DIM, "building", BUILDING_STYLE)>>,
    <<Path("buildings", "fishing_hut", ".png"),
      MakeSpec("Fishing Hut",
               "Small wooden hut on stilts at water's edge, thatched roof, fishing nets hanging to dry, a small dock/pier extending out, a fishing rod leaning against the wall.",
               BUILDING_DIM, "building", BUILDING_STYLE)>>,
    <<Path("buildings", "watchtower", ".png"),
      MakeSpec("Watchtower",
               "Tall stone watchtower/guard tower with a pointed roof, wooden observation platform at top with railing, narrow slit windows, a flag or banner at the peak.",
               BUILDING_DIM, "building", BUILDING_STYLE)>>,
    <<Path("buildings", "guild_hall", ".png"),
      MakeSpec("Guild Hall",
               "Large impressive guild hall building with grand wooden double doors, stone foundation, timber frame upper floors, colorful guild banner/flags hanging from facade, ornate roof.",
               BUILDING_DIM, "building", BUILDING_STYLE)>>,
    <<Path("buildings", "inn", ".png"),
      MakeSpec("Inn",
               "Two-story wooden inn building with a warm welcoming appearance, balcony on second floor, flower boxes in windows, cozy yellow-lit windows, a hanging sign with a bed icon.",
               BUILDING_DIM, "building", BUILDING_STYLE)>>,
    <<Path("buildings", "fountain", ".png"),
      MakeSpec("Fountain",
               "Ornamental stone fountain in a small plaza/square, circular basin with water flowing, decorative statue or pillar in center, stone tiles around base.",
               BUILDING_DIM, "building", BUILDING_STYLE)>>,
    <<Path("buildings", "ruins", ".png"),
      MakeSpec("Ruins",
               "Ancient crumbling stone ruins - broken walls, fallen pillars, overgrown with vines and moss, mysterious and abandoned atmosphere, weathered grey stone.",
               BUILDING_DIM, "building", BUILDING_STYLE)>>,
    <<Path("buildings", "witch_hut", ".png"),
      MakeSpec("Witch Hut",
               "Crooked mysterious witch's hut deep in the forest, tilted structure on chicken legs or stilts, glowing purple/green window, hanging herbs, cauldron outside, spooky but charming.",
               BUILDING_DIM, "building", BUILDING_STYLE)>>,
    <<Path("buildings", "port", ".png"),
      MakeSpec("Port",
               "Wooden harbor port with a long dock/pier extending over water, moored sailing ship, cargo crates and barrels on dock, rope coils, a small harbormaster's office building.",
               BUILDING_DIM, "building", BUILDING_STYLE)>>
>>

RESOURCE_OBJECTS == <<
    <<Path("resources", "tree_oak", ".png"),
      MakeSpec("Oak Tree",
               "Deciduous oak tree with rounded green canopy, brown trunk, full and leafy.",
               RESOURCE_DIM, "resource", RESOURCE_STYLE)>>,
    <<Path("resources", "tree_pine", ".png"),
      MakeSpec("Pine Tree",
               "Tall conifer/pine tree with triangular dark green shape, brown trunk, pointed top.",
               RESOURCE_DIM, "resource", RESOURCE_STYLE)>>,
    <<Path("resources", "tree_palm", ".png"),
      MakeSpec("Palm Tree",
               "Tropical palm tree with curved brown trunk and large green fronds/leaves at top.",
               RESOURCE_DIM, "resource", RESOURCE_STYLE)>>,
    <<Path("resources", "rock_small", ".png"),
      MakeSpec("Small Rock",
               "Small grey stone rock with subtle crack lines. Simple round-ish boulder.",
               RESOURCE_DIM, "resource", RESOURCE_STYLE)>>,
    <<Path("resources", "rock_large", ".png"),
      MakeSpec("Large Rock",
               "Larger grey-brown rock formation, more angular and imposing than small rock, with visible geological layers.",
               RESOURCE_DIM, "resource", RESOURCE_STYLE)>>,
    <<Path("resources", "bush_berry", ".png"),
      MakeSpec("Berry Bush",
               "Green bush with bright red/purple berries visible among the leaves. Round shrub shape.",
               RESOURCE_DIM, "resource", RESOURCE_STYLE)>>,
    <<Path("resources", "mushroom", ".png"),
      MakeSpec("Mushroom",
               "Cute red-capped mushroom with white spots (amanita-style), small white stem. Fantasy-looking.",
               RESOURCE_DIM, "resource", RESOURCE_STYLE)>>,
    <<Path("resources", "herb_green", ".png"),
      MakeSpec("Green Herb",
               "Small green herb plant with distinctive medicinal-looking leaves, fresh and vibrant green.",
               RESOURCE_DIM, "resource", RESOURCE_STYLE)>>,
    <<Path("resources", "herb_rare", ".png"),
      MakeSpec("Rare Herb",
               "Magical glowing rare herb with blue-purple leaves emitting a soft luminescent glow/sparkle effect. Mystical and valuable.",
               RESOURCE_DIM, "resource", RESOURCE_STYLE)>>,
    <<Path("resources", "flower_red", ".png"),
      MakeSpec("Red Flower",
               "Beautiful red flower with green stem and leaves, blooming petals. Simple and recognizable.",
               RESOURCE_DIM, "resource", RESOURCE_STYLE)>>,
    <<Path("resources", "flower_blue", ".png"),
      MakeSpec("Blue Flower",
               "Delicate blue flower with green stem and leaves, blooming petals. Cool blue color.",
               RESOURCE_DIM, "resource", RESOURCE_STYLE)>>,
    <<Path("resources", "wheat", ".png"),
      MakeSpec("Wheat",
               "Golden wheat stalks bundled together, ripe grain heads drooping. Harvest-ready golden color.",
               RESOURCE_DIM, "resource", RESOURCE_STYLE)>>,
    <<Path("resources", "vegetable", ".png"),
      MakeSpec("Vegetable",
               "Fresh garden vegetables - a few carrots and cabbages together, orange and green colors.",
               RESOURCE_DIM, "resource", RESOURCE_STYLE)>>,
    <<Path("resources", "fish_spot", ".png"),
      MakeSpec("Fish Spot",
               "Water surface ripple/splash effect indicating fish activity below, concentric circles on blue water, small fish shadow visible.",
               RESOURCE_DIM, "resource", RESOURCE_STYLE)>>,
    <<Path("resources", "ore_iron", ".png"),
      MakeSpec("Iron Ore",
               "Rock with visible iron ore veins, dark grey stone with reddish-brown metallic streaks/deposits.",
               RESOURCE_DIM, "resource", RESOURCE_STYLE)>>,
    <<Path("resources", "ore_gold", ".png"),
      MakeSpec("Gold Ore",
               "Rock with gleaming gold veins, grey stone with bright golden metallic streaks that sparkle.",
               RESOURCE_DIM, "resource", RESOURCE_STYLE)>>,
    <<Path("resources", "ore_crystal", ".png"),
      MakeSpec("Crystal Ore",
               "Rock with protruding crystal formations, translucent purple/blue crystals growing from grey stone, magical glow.",
               RESOURCE_DIM, "resource", RESOURCE_STYLE)>>
>>

ITEM_ICONS == <<
    <<Path("items", "sword", ".png"),
      MakeSpec("Sword",
               "Steel sword with silver blade, brown leather-wrapped handle, cross-guard. Classic RPG weapon.",
               ITEM_DIM, "item", ITEM_STYLE)>>,
    <<Path("items", "axe", ".png"),
      MakeSpec("Battle Axe",
               "Iron battle axe with dark metal head, wooden handle. Heavy and powerful looking.",
               ITEM_DIM, "item", ITEM_STYLE)>>,
    <<Path("items", "bow", ".png"),
      MakeSpec("Bow",
               "Wooden longbow with taut string, elegant curved shape. Brown wood with white string.",
               ITEM_DIM, "item", ITEM_STYLE)>>,
    <<Path("items", "staff", ".png"),
      MakeSpec("Magic Staff",
               "Wooden magic staff with glowing crystal/orb at the top emitting blue-purple magical energy. Wizard weapon.",
               ITEM_DIM, "item", ITEM_STYLE)>>,
    <<Path("items", "dagger", ".png"),
      MakeSpec("Dagger",
               "Short dagger with thin pointed blade, small cross-guard, compact handle. Quick weapon.",
               ITEM_DIM, "item", ITEM_STYLE)>>,
    <<Path("items", "shield", ".png"),
      MakeSpec("Shield",
               "Round metal shield with an emblem/crest in center, rivets around edge. Defensive equipment.",
               ITEM_DIM, "item", ITEM_STYLE)>>,
    <<Path("items", "helmet", ".png"),
      MakeSpec("Helmet",
               "Iron knight's helmet with visor, protective and sturdy looking. Grey metal.",
               ITEM_DIM, "item", ITEM_STYLE)>>,
    <<Path("items", "armor_leather", ".png"),
      MakeSpec("Leather Armor",
               "Brown leather armor chest piece with stitching details, buckles. Light armor.",
               ITEM_DIM, "item", ITEM_STYLE)>>,
    <<Path("items", "armor_plate", ".png"),
      MakeSpec("Plate Armor",
               "Heavy steel plate armor chest piece, polished silver metal, sturdy protection. Heavy armor.",
               ITEM_DIM, "item", ITEM_STYLE)>>,
    <<Path("items", "potion_red", ".png"),
      MakeSpec("Health Potion",
               "Red health potion in a round glass bottle/flask with cork stopper. Bright red glowing liquid.",
               ITEM_DIM, "item", ITEM_STYLE)>>,
    <<Path("items", "potion_blue", ".png"),
      MakeSpec("Mana Potion",
               "Blue mana potion in a round glass bottle/flask with cork stopper. Bright blue glowing liquid.",
               ITEM_DIM, "item", ITEM_STYLE)>>,
    <<Path("items", "bread", ".png"),
      MakeSpec("Bread",
               "Freshly baked bread loaf, golden brown crust, warm and appetizing. Simple food item.",
               ITEM_DIM, "item", ITEM_STYLE)>>,
    <<Path("items", "meat", ".png"),
      MakeSpec("Cooked Meat",
               "Cooked meat on a bone (drumstick style), brown and appetizing. Hearty food.",
               ITEM_DIM, "item", ITEM_STYLE)>>,
    <<Path("items", "fish_cooked", ".png"),
      MakeSpec("Cooked Fish",
               "Grilled whole fish on a plate, golden-brown cooked fish. Food item.",
               ITEM_DIM, "item", ITEM_STYLE)>>,
    <<Path("items", "wood", ".png"),
      MakeSpec("Wood",
               "Bundle of wooden logs/planks tied together, brown wood grain visible. Crafting material.",
               ITEM_DIM, "item", ITEM_STYLE)>>,
    <<Path("items", "stone", ".png"),
      MakeSpec("Stone",
               "Grey stone block or chunk, rough hewn surface. Basic building material.",
               ITEM_DIM, "item", ITEM_STYLE)>>,
    <<Path("items", "iron_ingot", ".png"),
      MakeSpec("Iron Ingot",
               "Silver-grey iron ingot bar, metallic sheen, trapezoidal shape. Smelted metal.",
               ITEM_DIM, "item", ITEM_STYLE)>>,
    <<Path("items", "gold_ingot", ".png"),
      MakeSpec("Gold Ingot",
               "Shiny golden ingot bar, bright warm gold with sparkle. Precious metal.",
               ITEM_DIM, "item", ITEM_STYLE)>>,
    <<Path("items", "crystal", ".png"),
      MakeSpec("Crystal",
               "Translucent purple crystal gem, faceted and sparkling with magical energy.",
               ITEM_DIM, "item", ITEM_STYLE)>>,
    <<Path("items", "leather", ".png"),
      MakeSpec("Leather",
               "Rolled piece of brown leather hide, tanned and ready for crafting.",
               ITEM_DIM, "item", ITEM_STYLE)>>,
    <<Path("items", "cloth", ".png"),
      MakeSpec("Cloth",
               "Folded piece of white/cream cloth fabric, soft textile material.",
               ITEM_DIM, "item", ITEM_STYLE)>>,
    <<Path("items", "gem_red", ".png"),
      MakeSpec("Red Gem",
               "Brilliant cut red ruby gemstone, faceted and sparkling with deep red color.",
               ITEM_DIM, "item", ITEM_STYLE)>>,
    <<Path("items", "gem_blue", ".png"),
      MakeSpec("Blue Gem",
               "Brilliant cut blue sapphire gemstone, faceted and sparkling with deep blue color.",
               ITEM_DIM, "item", ITEM_STYLE)>>,
    <<Path("items", "scroll", ".png"),
      MakeSpec("Scroll",
               "Rolled parchment scroll with a red wax seal, aged paper color, arcane knowledge.",
               ITEM_DIM, "item", ITEM_STYLE)>>,
    <<Path("items", "key", ".png"),
      MakeSpec("Key",
               "Ornate golden key with decorative bow/handle, classic fantasy key design.",
               ITEM_DIM, "item", ITEM_STYLE)>>,
    <<Path("items", "map", ".png"),
      MakeSpec("Map",
               "Partially unrolled treasure/world map showing coastlines and an X mark, aged parchment.",
               ITEM_DIM, "item", ITEM_STYLE)>>
>>

CHARACTER_SPRITES == <<
    <<Path("characters", "human_base", ".png"),
      MakeSpec("Human Base",
               "Human RPG character with fair skin, brown hair, wearing simple brown tunic and pants. Average build, friendly and approachable.",
               CHAR_DIM, "character", CHAR_STYLE)>>,
    <<Path("characters", "elf_base", ".png"),
      MakeSpec("Elf Base",
               "Elegant elf character with pointed ears, light skin, long silver-blonde hair, wearing green forest clothing. Slender and graceful.",
               CHAR_DIM, "character", CHAR_STYLE)>>,
    <<Path("characters", "dwarf_base", ".png"),
      MakeSpec("Dwarf Base",
               "Stout dwarf character with thick brown beard, ruddy complexion, wearing heavy leather and metal vest. Short and stocky build.",
               CHAR_DIM, "character", CHAR_STYLE)>>,
    <<Path("characters", "orc_base", ".png"),
      MakeSpec("Orc Base",
               "Green-skinned orc character with small tusks, muscular build, wearing tribal leather armor with bone accessories. Strong and fierce.",
               CHAR_DIM, "character", CHAR_STYLE)>>,
    <<Path("characters", "beastkin_base", ".png"),
      MakeSpec("Beastkin Base",
               "Fox-like beastkin character with orange fur, pointy ears, bushy tail, wearing simple cloth outfit. Agile and alert expression.",
               CHAR_DIM, "character", CHAR_STYLE)>>,
    <<Path("characters", "undead_base", ".png"),
      MakeSpec("Undead Base",
               "Pale undead/skeleton character with ghostly blue-white skin, glowing blue eyes, tattered dark robes. Eerie but not scary, RPG-cute style.",
               CHAR_DIM, "character", CHAR_STYLE)>>,
    <<Path("characters", "fairy_base", ".png"),
      MakeSpec("Fairy Base",
               "Tiny fairy character with translucent iridescent wings, light purple skin, wearing flower-petal clothing, sparkling aura. Magical and delicate.",
               CHAR_DIM, "character", CHAR_STYLE)>>,
    <<Path("characters", "dragonkin_base", ".png"),
      MakeSpec("Dragonkin Base",
               "Dragon-humanoid character with red scales, small horns, reptilian eyes, tail, wearing metal and leather armor. Powerful and noble.",
               CHAR_DIM, "character", CHAR_STYLE)>>
>>

UI_ELEMENTS == <<
    <<Path("ui/minimap_icons", "tavern", ".png"),
      MakeSpec("Minimap Tavern",
               "Tiny mug/cup icon for tavern location marker.",
               MINIMAP_DIM, "ui_minimap", MINIMAP_STYLE)>>,
    <<Path("ui/minimap_icons", "market", ".png"),
      MakeSpec("Minimap Market",
               "Tiny shopping bag/cart icon for market location.",
               MINIMAP_DIM, "ui_minimap", MINIMAP_STYLE)>>,
    <<Path("ui/minimap_icons", "blacksmith", ".png"),
      MakeSpec("Minimap Blacksmith",
               "Tiny anvil/hammer icon for blacksmith location.",
               MINIMAP_DIM, "ui_minimap", MINIMAP_STYLE)>>,
    <<Path("ui/minimap_icons", "library", ".png"),
      MakeSpec("Minimap Library",
               "Tiny book icon for library location.",
               MINIMAP_DIM, "ui_minimap", MINIMAP_STYLE)>>,
    <<Path("ui/minimap_icons", "temple", ".png"),
      MakeSpec("Minimap Temple",
               "Tiny cross/star icon for temple location.",
               MINIMAP_DIM, "ui_minimap", MINIMAP_STYLE)>>,
    <<Path("ui/minimap_icons", "farm", ".png"),
      MakeSpec("Minimap Farm",
               "Tiny wheat/plant icon for farm location.",
               MINIMAP_DIM, "ui_minimap", MINIMAP_STYLE)>>,
    <<Path("ui/minimap_icons", "mine", ".png"),
      MakeSpec("Minimap Mine",
               "Tiny pickaxe icon for mine location.",
               MINIMAP_DIM, "ui_minimap", MINIMAP_STYLE)>>,
    <<Path("ui/minimap_icons", "port", ".png"),
      MakeSpec("Minimap Port",
               "Tiny anchor/boat icon for port location.",
               MINIMAP_DIM, "ui_minimap", MINIMAP_STYLE)>>,
    <<Path("ui/emotion_bubbles", "happy", ".png"),
      MakeSpec("Happy Emotion",
               "Happy smiling face emoji with closed eyes smile. Yellow, joyful.",
               EMOTION_DIM, "ui_emotion", EMOTION_STYLE)>>,
    <<Path("ui/emotion_bubbles", "sad", ".png"),
      MakeSpec("Sad Emotion",
               "Sad face emoji with downturned mouth and teardrop. Blue, melancholy.",
               EMOTION_DIM, "ui_emotion", EMOTION_STYLE)>>,
    <<Path("ui/emotion_bubbles", "angry", ".png"),
      MakeSpec("Angry Emotion",
               "Angry face emoji with furrowed brows and frown. Red, frustrated.",
               EMOTION_DIM, "ui_emotion", EMOTION_STYLE)>>,
    <<Path("ui/emotion_bubbles", "surprised", ".png"),
      MakeSpec("Surprised Emotion",
               "Surprised face emoji with wide open mouth and eyes. Yellow, shocked.",
               EMOTION_DIM, "ui_emotion", EMOTION_STYLE)>>,
    <<Path("ui/emotion_bubbles", "scared", ".png"),
      MakeSpec("Scared Emotion",
               "Fearful face emoji with wide eyes, trembling expression. Pale/blue, frightened.",
               EMOTION_DIM, "ui_emotion", EMOTION_STYLE)>>,
    <<Path("ui/emotion_bubbles", "love", ".png"),
      MakeSpec("Love Emotion",
               "Love emoji with heart eyes or hearts floating around. Pink/red, affectionate.",
               EMOTION_DIM, "ui_emotion", EMOTION_STYLE)>>,
    <<Path("ui/emotion_bubbles", "thinking", ".png"),
      MakeSpec("Thinking Emotion",
               "Thinking face emoji with hand on chin, raised eyebrow. Yellow, contemplative.",
               EMOTION_DIM, "ui_emotion", EMOTION_STYLE)>>,
    <<Path("ui/emotion_bubbles", "sleepy", ".png"),
      MakeSpec("Sleepy Emotion",
               "Sleepy face emoji with closed eyes and Zzz letters floating. Purple/blue, drowsy.",
               EMOTION_DIM, "ui_emotion", EMOTION_STYLE)>>,
    <<Path("ui", "speech_bubble", ".png"),
      MakeSpec("Speech Bubble",
               "White speech bubble frame with rounded corners, thin dark outline, small triangular tail/pointer at bottom. Clean UI element.",
               BUBBLE_DIM, "ui_bubble", BUBBLE_STYLE)>>,
    <<Path("ui/action_icons", "gathering", ".png"),
      MakeSpec("Gathering Action",
               "Small pickaxe/hand gathering icon. Resource collection activity indicator.",
               ACTION_DIM, "ui_action", ACTION_STYLE)>>,
    <<Path("ui/action_icons", "crafting", ".png"),
      MakeSpec("Crafting Action",
               "Small hammer and anvil icon. Crafting/smithing activity indicator.",
               ACTION_DIM, "ui_action", ACTION_STYLE)>>,
    <<Path("ui/action_icons", "fighting", ".png"),
      MakeSpec("Fighting Action",
               "Small crossed swords icon. Combat/battle activity indicator.",
               ACTION_DIM, "ui_action", ACTION_STYLE)>>,
    <<Path("ui/action_icons", "resting", ".png"),
      MakeSpec("Resting Action",
               "Small crescent moon with Zzz icon. Sleeping/resting activity indicator.",
               ACTION_DIM, "ui_action", ACTION_STYLE)>>,
    <<Path("ui/action_icons", "trading", ".png"),
      MakeSpec("Trading Action",
               "Small handshake or coin exchange icon. Trading activity indicator.",
               ACTION_DIM, "ui_action", ACTION_STYLE)>>,
    <<Path("ui/action_icons", "walking", ".png"),
      MakeSpec("Walking Action",
               "Small footprints or walking person silhouette icon. Movement activity indicator.",
               ACTION_DIM, "ui_action", ACTION_STYLE)>>,
    <<Path("ui/action_icons", "eating", ".png"),
      MakeSpec("Eating Action",
               "Small fork and knife or apple icon. Eating/consuming activity indicator.",
               ACTION_DIM, "ui_action", ACTION_STYLE)>>,
    <<Path("ui/action_icons", "exploring", ".png"),
      MakeSpec("Exploring Action",
               "Small compass or magnifying glass icon. Exploration activity indicator.",
               ACTION_DIM, "ui_action", ACTION_STYLE)>>
>>

\* ALL_CATEGORIES: the registry, category name -> list of (path, spec).
ALL_CATEGORIES ==
    [tiles |-> TERRAIN_TILES,
     buildings |-> POI_BUILDINGS,
     resources |-> RESOURCE_OBJECTS,
     items |-> ITEM_ICONS,
     characters |-> CHARACTER_SPRITES,
     ui |-> UI_ELEMENTS]

Records == 1..NumRecords
Scripts == {"world", "assets", "tiles"}
\* What one call of client.models.generate_content can do: return a response
\* with an inline image part, return a response with no image part, raise.
Responses == {"image", "noimage", "raise"}
\* Content of one file under ASSETS_DIR.
\*   absent    no file
\*   old       a finished asset that was there before the first run
\*   partial   opened with "wb" (truncated), bytes not written yet
\*   raw       bytes of the service, decodable as an image
\*   rawbad    bytes of the service, not decodable as an image
\*   processed resized and background-cleaned by post_process
Contents == {"absent", "old", "partial", "raw", "rawbad", "processed"}
Outcomes == {"none", "Skipped", "Generated", "Failed"}

VARIABLES
    script,      \* which of the three scripts runs
    args,        \* parsed command line of generate-world-assets.py
    apiKey,      \* API_KEY is set
    pil,         \* PIL and numpy can be imported
    retries,     \* retries parameter of generate_image
    fs,          \* Records -> Contents: the files at the output paths
    pc,          \* position of the script
    idx,         \* index of the record the for loop is at
    attempt,     \* loop variable of generate_image
    genResult,   \* return value of generate_image
    resps,       \* what the service did at each attempt for this record
    waits,       \* the sleep after each failed attempt (0: none)
    generated, skipped, failed, processed,   \* counters of main (world)
    done,        \* counter of main (assets)
    outcome,     \* Records -> Outcomes: the line reported per record
    calls,       \* Records -> number of external calls in this run
    writes,      \* Records -> number of times the file was written
    posted,      \* Records -> number of post_process invocations
    paced,       \* time.sleep(args.delay) ran since the last external call
    wouldGen,    \* the paths a dry run printed
    listed,      \* the status --list printed per record
    exported,    \* the files --export-specs wrote
    run,         \* number of the invocation
    prevFs,      \* the files as they were when this invocation started
    prevEnd,     \* how the previous invocation ended ("none": there was none)
    raw,         \* the image generate_image wrote for the record under study
    image,       \* the image now stored at image_path
    img,         \* local img / data of post_process
    target,      \* dims of the record under study
    spec,        \* the spec of the record under study
    prompt,      \* local prompt of main: the parts build_prompt joined
    sent,        \* the prompts handed to generate_image
    scanned,     \* the filepaths a walk over the registry has met
    upc          \* position in the function under study ("idle": none)

vars == <<script, args, apiKey, pil, retries, fs, pc, idx, attempt, genResult,
          resps, waits, generated, skipped, failed, processed, done, outcome,
          calls, writes, posted, paced, wouldGen, listed, exported, run,
          prevFs, prevEnd, raw, image, img, target, spec, prompt, sent,
          scanned, upc>>

unit == <<raw, image, img, target, spec, prompt, sent, scanned, upc>>
env == <<script, args, apiKey, pil, retries, run, prevFs, prevEnd, unit>>
envButTarget == <<script, args, apiKey, pil, retries, run, prevFs, prevEnd,
                  raw, image, img, spec, prompt, sent, scanned, upc>>
counters == <<generated, skipped, failed, processed, done>>
genLocals == <<attempt, genResult, resps, waits>>
history == <<outcome, calls, writes, posted>>
cliOut == <<listed, exported>>

Exists(i) == fs[i] # "absent"

\* The keys of ALL_CATEGORIES, in the order of the registry.
CategoryNames == <<"tiles", "buildings", "resources", "items", "characters", "ui">>

\* Record i stands for the first entry of the i-th category of the registry.
CategoryOf(i) == CategoryNames[i]
KnownCategories == {CategoryOf(i) : i \in Records}

\* The (path, spec) pair record i stands for.
RecordEntry(i) == ALL_CATEGORIES[CategoryOf(i)][1]

\* --category: not given ("none" stands for None), the empty word, a key of
\* the registry, or another word.
CategoryArgs == {"none", "", "foo"} \cup KnownCategories

\* "if args.category:": None and the empty string are false.
CategoryGiven == args.category \notin {"none", ""}

\* --export-specs is a directory; only whether it is given matters here.
ArgsSet == [force : BOOLEAN, dry_run : BOOLEAN, no_post : BOOLEAN,
            list : BOOLEAN, export_specs : BOOLEAN, category : CategoryArgs]
NoArgs == [force |-> FALSE, dry_run |-> FALSE, no_post |-> FALSE,
           list |-> FALSE, export_specs |-> FALSE, category |-> "none"]

\* State of a freshly started process, apart from the environment.
Fresh ==
    /\ idx = 1
    /\ attempt = 0
    /\ genResult = FALSE
    /\ resps = <<>>
    /\ waits = <<>>
    /\ generated = 0 /\ skipped = 0 /\ failed = 0 /\ processed = 0
    /\ done = 0
    /\ outcome = [i \in Records |-> "none"]
    /\ calls = [i \in Records |-> 0]
    /\ writes = [i \in Records |-> 0]
    /\ posted = [i \in Records |-> 0]
    /\ paced = TRUE
    /\ wouldGen = {}
    /\ listed = <<>>
    /\ exported = {}

\* No function is studied on its own: the variables of unit stay idle.
NoImage == [size |-> <<0, 0>>, px |-> [r |-> 0, g |-> 0, b |-> 0, a |-> 0]]

UnitIdle ==
    /\ raw = NoImage /\ image = NoImage /\ img = NoImage
    /\ target = [width_px |-> 0, height_px |-> 0]
    /\ spec = [marketing_image |-> <<>>]
    /\ prompt = <<>>
    /\ sent = <<>>
    /\ scanned = <<>>
    /\ upc = "idle"

Init ==
    /\ script \in Scripts
    /\ args \in ArgsSet
    /\ script # "world" => args = NoArgs
    /\ apiKey \in BOOLEAN
    /\ pil \in BOOLEAN
    /\ retries = DefaultRetries
    /\ fs \in [Records -> {"absent", "old"}]
    /\ prevFs = fs
    /\ prevEnd = "none"
    /\ run = 1
    /\ pc = IF script = "world" THEN "main" ELSE "import"
    /\ Fresh
    /\ UnitIdle

\* ------------------------------------------------------------ module load
\* generate-assets.py and generate-new-tiles.py test API_KEY when the module
\* is loaded and leave with status 1 before main() when it is missing.
ImportCheck ==
    /\ pc = "import"
    /\ script \in {"assets", "tiles"}
    /\ pc' = IF apiKey THEN "loop" ELSE "exit1"
    /\ UNCHANGED <<env, fs, idx, genLocals, counters, history, paced, wouldGen, cliOut>>

\* ------------------------------------------------- generate-world-assets.py
\* Mutant: the negation of args.force is lost.
SkipsRecordForceFlipped(i) == Exists(i) /\ args.force

\* Mutant: --force is not looked at.
SkipsRecordIgnoringForce(i) == Exists(i)

\* The records a dry run or a generation run passes over instead of
\* generating: output_path.exists() and not args.force.
SkipsRecord(i) == Exists(i) /\ ~args.force

\* main(), "Filter categories if specified": the records of the dict
\* categories.
Selected ==
    IF ~CategoryGiven THEN Records
    ELSE {i \in Records : CategoryOf(i) = args.category}

\* The first selected record from index from on; NumRecords + 1 when there
\* is none: the order of "for cat_name, assets in categories.items()".
NextSelected(from) ==
    IF \E i \in Selected : i >= from
    THEN CHOOSE i \in Selected : i >= from /\ \A j \in Selected : j >= from => i <= j
    ELSE NumRecords + 1

\* Mutant: --list is looked at before the category is checked.
DispatchListFirst ==
    CASE args.list -> "list"
      [] CategoryGiven /\ args.category \notin KnownCategories -> "unknown_category"
      [] args.export_specs -> "export"
      [] args.dry_run -> "dry_run"
      [] ~apiKey -> "no_key"
      [] OTHER -> "generate"

\* Mutant: the API key is required as soon as the category is known.
DispatchKeyFirst ==
    CASE CategoryGiven /\ args.category \notin KnownCategories -> "unknown_category"
      [] ~apiKey -> "no_key"
      [] args.list -> "list"
      [] args.export_specs -> "export"
      [] args.dry_run -> "dry_run"
      [] OTHER -> "generate"

\* The branch main() takes, in the order of its tests: unknown category,
\* --list, --export-specs, --dry-run, missing API key, generation.
Dispatch ==
    CASE CategoryGiven /\ args.category \notin KnownCategories -> "unknown_category"
      [] args.list -> "list"
      [] args.export_specs -> "export"
      [] args.dry_run -> "dry_run"
      [] ~apiKey -> "no_key"
      [] OTHER -> "generate"

\* main(), "Filter categories if specified": an unknown category is
\* reported and the process leaves with sys.exit(1).
WorldUnknownCategory ==
    /\ pc = "main"
    /\ script = "world"
    /\ Dispatch = "unknown_category"
    /\ pc' = "exit1"
    /\ UNCHANGED <<env, fs, idx, genLocals, counters, history, paced, wouldGen, cliOut>>

\* main(), "List mode": list_assets prints [EXISTS] or [NEW] per record and
\* main returns.
WorldList ==
    /\ pc = "main"
    /\ script = "world"
    /\ Dispatch = "list"
    /\ listed' = [i \in Selected |-> IF Exists(i) THEN "EXISTS" ELSE "NEW"]
    /\ pc' = "done"
    /\ UNCHANGED <<env, fs, idx, genLocals, counters, history, paced, wouldGen,
                   exported>>

\* Mutant: the category directory is left out of the exported file's path.
ExportFileNoCategory(cat_name, filepath) == Path("", filepath.stem, ".json")

\* The file export_specs writes for an entry of category cat_name:
\* output_dir / cat_name / (Path(filepath).stem + ".json").
ExportFile(cat_name, filepath) == Path(cat_name, filepath.stem, ".json")

\* main(), "Export specs mode": export_specs writes one JSON file per
\* selected entry and main returns.
WorldExport ==
    /\ pc = "main"
    /\ script = "world"
    /\ Dispatch = "export"
    /\ exported' = {ExportFile(CategoryOf(i), RecordEntry(i)[1]) : i \in Selected}
    /\ pc' = "done"
    /\ UNCHANGED <<env, fs, idx, genLocals, counters, history, paced, wouldGen,
                   listed>>

\* main(), "Dry run mode": the loop only prints and counts, then returns.
WorldDryRun ==
    /\ pc = "main"
    /\ script = "world"
    /\ Dispatch = "dry_run"
    /\ wouldGen' = {i \in Selected : ~SkipsRecord(i)}
    /\ pc' = "done"
    /\ UNCHANGED <<env, fs, idx, genLocals, counters, history, paced, cliOut>>

\* main(), "Generation mode - need API key": sys.exit(1) without API_KEY,
\* otherwise the client is built and the counters are set to 0.
WorldStartGeneration ==
    /\ pc = "main"
    /\ script = "world"
    /\ Dispatch \in {"no_key", "generate"}
    /\ pc' = IF Dispatch = "generate" THEN "loop" ELSE "exit1"
    /\ idx' = IF Dispatch = "generate" THEN NextSelected(1) ELSE idx
    /\ UNCHANGED <<env, fs, genLocals, counters, history, paced, wouldGen, cliOut>>

\* One pass of "for filepath, spec in assets" up to the call of
\* generate_image: count the record, skip it when its file exists and force
\* is off, otherwise build the prompt and enter generate_image.
WorldNextRecord ==
    /\ pc = "loop"
    /\ script = "world"
    /\ idx \in Records
    /\ processed' = processed + 1
    /\ IF SkipsRecord(idx)
       THEN /\ skipped' = skipped + 1
            /\ outcome' = [outcome EXCEPT ![idx] = "Skipped"]
            /\ idx' = NextSelected(idx + 1)
            /\ pc' = "loop"
            /\ UNCHANGED <<genLocals>>
       ELSE /\ pc' = "gen"
            /\ attempt' = 0
            /\ resps' = <<>>
            /\ waits' = <<>>
            /\ UNCHANGED <<skipped, outcome, idx, genResult>>
    /\ UNCHANGED <<env, fs, generated, failed, done, calls, writes, posted,
                   paced, wouldGen, cliOut>>

\* main(), "Summary": the loops are over, the counters are printed.
WorldSummary ==
    /\ pc = "loop"
    /\ script = "world"
    /\ idx = NumRecords + 1
    /\ pc' = "done"
    /\ UNCHANGED <<env, fs, idx, genLocals, counters, history, paced, wouldGen, cliOut>>

\* -------------------------------------------------------- generate_image
\* Mutant: range(retries) instead of range(retries + 1).
InRangeShort(att, maxRetries) == att < maxRetries

\* "for attempt in range(retries + 1)": the values the loop variable takes.
InRange(att, maxRetries) == att < maxRetries + 1

\* Mutant: the sleep of the except branch copied from the branch above it.
GenerateImageBodySameWait(resp, att, maxRetries) ==
    CASE resp = "image"   -> [write |-> TRUE, wait |-> 0]
      [] resp = "noimage" -> [write |-> FALSE,
                              wait |-> IF att < maxRetries THEN NoImageWait ELSE 0]
      [] resp = "raise"   -> [write |-> FALSE,
                              wait |-> IF att < maxRetries THEN NoImageWait ELSE 0]

\* Mutant: a response without image data is retried once less than an
\* exception.
GenerateImageBodyNoImageShort(resp, att, maxRetries) ==
    CASE resp = "image"   -> [write |-> TRUE, wait |-> 0]
      [] resp = "noimage" -> [write |-> FALSE,
                              wait |-> IF att + 1 < maxRetries THEN NoImageWait ELSE 0]
      [] resp = "raise"   -> [write |-> FALSE,
                              wait |-> IF att < maxRetries THEN ErrorWait ELSE 0]

\* What one pass of "for attempt in range(retries + 1)" does with the
\* answer of the service: go on to write the file, or sleep and go round.
\* wait = 0 stands for no sleep.
GenerateImageBody(resp, att, maxRetries) ==
    CASE resp = "image"   -> [write |-> TRUE, wait |-> 0]
      [] resp = "noimage" -> [write |-> FALSE,
                              wait |-> IF att < maxRetries THEN NoImageWait ELSE 0]
      [] resp = "raise"   -> [write |-> FALSE,
                              wait |-> IF att < maxRetries THEN ErrorWait ELSE 0]

\* Mutant: the file is opened for writing before the answer is looked at.
FileAfterAnswerOpenedFirst(content, write) == "partial"

\* The file at output_path once the answer is there: open(output_path, "wb")
\* stands under "if part.inline_data is not None", so the file is truncated
\* only when the answer holds an image.
FileAfterAnswer(content, write) == IF write THEN "partial" ELSE content

\* One attempt of generate_image of generate-world-assets.py: the external
\* call, then either open(output_path, "wb"), which truncates the file, or
\* the warning, the sleep and the next attempt; "return False" when the
\* range is exhausted.
GenerateImageAttempt ==
    /\ pc = "gen"
    /\ script = "world"
    /\ InRange(attempt, retries)
    /\ \E resp \in Responses :
         LET b == GenerateImageBody(resp, attempt, retries) IN
         /\ calls' = [calls EXCEPT ![idx] = @ + 1]
         /\ paced' = FALSE
         /\ resps' = Append(resps, resp)
         /\ fs' = [fs EXCEPT ![idx] = FileAfterAnswer(@, b.write)]
         /\ IF b.write
            THEN /\ pc' = "gen_write"
                 /\ UNCHANGED <<attempt, waits, genResult>>
            ELSE /\ waits' = Append(waits, b.wait)
                 /\ attempt' = attempt + 1
                 /\ pc' = IF InRange(attempt + 1, retries) THEN "gen" ELSE "gen_ret"
                 /\ genResult' = FALSE
    /\ UNCHANGED <<env, idx, counters, outcome, writes, posted, wouldGen, cliOut>>

\* f.write(image_data) and "return True".  Whether the bytes decode as an
\* image is up to the service.
GenerateImageWrite ==
    /\ pc = "gen_write"
    /\ \E bytes \in {"raw", "rawbad"} :
         fs' = [fs EXCEPT ![idx] = bytes]
    /\ writes' = [writes EXCEPT ![idx] = @ + 1]
    /\ genResult' = TRUE
    /\ pc' = "gen_ret"
    /\ UNCHANGED <<env, idx, attempt, resps, waits, counters, outcome, calls,
                   posted, paced, wouldGen, cliOut>>

\* ---------------------------------------------------------- post_process
\* Mutant: the ImportError is not caught.
PostProcessImportErrorRaised(content, pilAvailable) ==
    IF ~pilAvailable THEN [raised |-> TRUE, content |-> content]
    ELSE IF content = "rawbad" THEN [raised |-> TRUE, content |-> content]
    ELSE [raised |-> FALSE, content |-> "processed"]

\* post_process of generate-world-assets.py on a file: without PIL/numpy
\* the ImportError is caught and the file is kept; Image.open raises on
\* bytes that are no image, and nothing catches that; otherwise the file
\* is resized, its background cleaned, and saved.
PostProcess(content, pilAvailable) ==
    IF ~pilAvailable THEN [raised |-> FALSE, content |-> content]
    ELSE IF content = "rawbad" THEN [raised |-> TRUE, content |-> content]
    ELSE [raised |-> FALSE, content |-> "processed"]

\* Mutant: the dims of the first record are handed to post_process for
\* every record.
PostDimsOfFirst(i) ==
    ALL_CATEGORIES[CategoryOf(1)][1][2].marketing_image.subject.physical_properties

\* main(): dims = spec["marketing_image"]["subject"]["physical_properties"],
\* spec being that of the record the loop is at; target keeps the dims of
\* the last call of post_process.
PostDims(i) == RecordEntry(i)[2].marketing_image.subject.physical_properties

\* main() after generate_image returned: count the result; on success
\* post-process unless --no-post and sleep args.delay; go to the next
\* record.  An exception out of post_process ends main().  The locals of
\* generate_image are gone once it has returned.
WorldAfterGenerate ==
    /\ pc = "gen_ret"
    /\ script = "world"
    /\ IF genResult
       THEN /\ generated' = generated + 1
            /\ outcome' = [outcome EXCEPT ![idx] = "Generated"]
            /\ UNCHANGED failed
            /\ IF ~args.no_post
               THEN LET p == PostProcess(fs[idx], pil) IN
                    /\ posted' = [posted EXCEPT ![idx] = @ + 1]
                    /\ target' = PostDims(idx)
                    /\ fs' = [fs EXCEPT ![idx] = p.content]
                    /\ IF p.raised
                       THEN /\ pc' = "crashed"
                            /\ UNCHANGED <<idx, paced>>
                       ELSE /\ paced' = TRUE
                            /\ idx' = NextSelected(idx + 1)
                            /\ pc' = "loop"
               ELSE /\ paced' = TRUE
                    /\ idx' = NextSelected(idx + 1)
                    /\ pc' = "loop"
                    /\ UNCHANGED <<posted, fs, target>>
       ELSE /\ failed' = failed + 1
            /\ outcome' = [outcome EXCEPT ![idx] = "Failed"]
            /\ idx' = NextSelected(idx + 1)
            /\ pc' = "loop"
            /\ UNCHANGED <<generated, posted, fs, paced, target>>
    /\ attempt' = 0 /\ genResult' = FALSE /\ resps' = <<>> /\ waits' = <<>>
    /\ UNCHANGED <<envButTarget, skipped, processed, done, calls, writes,
                   wouldGen, cliOut>>

WorldNext ==
    \/ WorldUnknownCategory
    \/ WorldList
    \/ WorldExport
    \/ WorldDryRun
    \/ WorldStartGeneration
    \/ WorldNextRecord
    \/ WorldSummary
    \/ GenerateImageAttempt
    \/ GenerateImageWrite
    \/ WorldAfterGenerate

\* ------------------------------------------------------ generate-assets.py
\* One pass of "for filename, prompt in items": an existing file is
\* reported SKIP and counted in done, otherwise generate_image is entered.
AssetsNextRecord ==
    /\ pc = "loop"
    /\ script = "assets"
    /\ idx \in Records
    /\ IF Exists(idx)
       THEN /\ done' = done + 1
            /\ outcome' = [outcome EXCEPT ![idx] = "Skipped"]
            /\ idx' = idx + 1
            /\ pc' = "loop"
       ELSE /\ pc' = "gen"
            /\ UNCHANGED <<done, outcome, idx>>
    /\ UNCHANGED <<env, fs, genLocals, generated, skipped, failed, processed,
                   calls, writes, posted, paced, wouldGen, cliOut>>

\* generate_image of generate-assets.py: one external call, no retry.
AssetsGenerateImage ==
    /\ pc = "gen"
    /\ script = "assets"
    /\ \E resp \in Responses :
         /\ calls' = [calls EXCEPT ![idx] = @ + 1]
         /\ paced' = FALSE
         /\ resps' = Append(resps, resp)
         /\ IF resp = "image"
            THEN /\ fs' = [fs EXCEPT ![idx] = "partial"]
                 /\ pc' = "gen_write"
                 /\ UNCHANGED genResult
            ELSE /\ genResult' = FALSE
                 /\ pc' = "gen_ret"
                 /\ UNCHANGED fs
    /\ UNCHANGED <<env, idx, attempt, waits, counters, outcome, writes, posted,
                   wouldGen, cliOut>>

\* main() of generate-assets.py after generate_image returned.
AssetsAfterGenerate ==
    /\ pc = "gen_ret"
    /\ script = "assets"
    /\ IF genResult
       THEN /\ done' = done + 1
            /\ outcome' = [outcome EXCEPT ![idx] = "Generated"]
            /\ UNCHANGED failed
       ELSE /\ failed' = failed + 1
            /\ outcome' = [outcome EXCEPT ![idx] = "Failed"]
            /\ UNCHANGED done
    /\ idx' = idx + 1
    /\ pc' = "loop"
    /\ attempt' = 0 /\ genResult' = FALSE /\ resps' = <<>> /\ waits' = <<>>
    /\ UNCHANGED <<env, fs, generated, skipped, processed, calls, writes,
                   posted, paced, wouldGen, cliOut>>

\* The "=== Done: ..." line of generate-assets.py.
AssetsSummary ==
    /\ pc = "loop"
    /\ script = "assets"
    /\ idx = NumRecords + 1
    /\ pc' = "done"
    /\ UNCHANGED <<env, fs, idx, genLocals, counters, history, paced, wouldGen, cliOut>>

AssetsNext ==
    \/ AssetsNextRecord
    \/ AssetsGenerateImage
    \/ AssetsAfterGenerate
    \/ AssetsSummary

\* --------------------------------------------------- generate-new-tiles.py
\* One pass of "for filename, prompt in NEW_TILES".
TilesNextRecord ==
    /\ pc = "loop"
    /\ script = "tiles"
    /\ idx \in Records
    /\ IF Exists(idx)
       THEN /\ outcome' = [outcome EXCEPT ![idx] = "Skipped"]
            /\ idx' = idx + 1
            /\ pc' = "loop"
       ELSE /\ pc' = "gen"
            /\ UNCHANGED <<outcome, idx>>
    /\ UNCHANGED <<env, fs, genLocals, counters, calls, writes, posted, paced,
                   wouldGen, cliOut>>

\* generate_image of generate-new-tiles.py: one external call, no retry.
TilesGenerateImage ==
    /\ pc = "gen"
    /\ script = "tiles"
    /\ \E resp \in Responses :
         /\ calls' = [calls EXCEPT ![idx] = @ + 1]
         /\ paced' = FALSE
         /\ resps' = Append(resps, resp)
         /\ IF resp = "image"
            THEN /\ fs' = [fs EXCEPT ![idx] = "partial"]
                 /\ pc' = "gen_write"
                 /\ UNCHANGED genResult
            ELSE /\ genResult' = FALSE
                 /\ pc' = "gen_ret"
                 /\ UNCHANGED fs
    /\ UNCHANGED <<env, idx, attempt, waits, counters, outcome, writes, posted,
                   wouldGen, cliOut>>

\* post_process of generate-new-tiles.py: as PostProcess, with the fixed
\* size 128x128 and its own thresholds.
TilesPostProcess(content, pilAvailable) ==
    IF ~pilAvailable THEN [raised |-> FALSE, content |-> content]
    ELSE IF content = "rawbad" THEN [raised |-> TRUE, content |-> content]
    ELSE [raised |-> FALSE, content |-> "processed"]

\* main() of generate-new-tiles.py after generate_image returned:
\* post_process on success, nothing otherwise.
TilesAfterGenerate ==
    /\ pc = "gen_ret"
    /\ script = "tiles"
    /\ IF genResult
       THEN LET p == TilesPostProcess(fs[idx], pil) IN
            /\ outcome' = [outcome EXCEPT ![idx] = "Generated"]
            /\ posted' = [posted EXCEPT ![idx] = @ + 1]
            /\ fs' = [fs EXCEPT ![idx] = p.content]
            /\ IF p.raised
               THEN pc' = "crashed" /\ UNCHANGED idx
               ELSE pc' = "loop" /\ idx' = idx + 1
       ELSE /\ outcome' = [outcome EXCEPT ![idx] = "Failed"]
            /\ idx' = idx + 1
            /\ pc' = "loop"
            /\ UNCHANGED <<posted, fs>>
    /\ attempt' = 0 /\ genResult' = FALSE /\ resps' = <<>> /\ waits' = <<>>
    /\ UNCHANGED <<env, counters, calls, writes, paced, wouldGen, cliOut>>

\* The "=== Done ===" line of generate-new-tiles.py.
TilesDone ==
    /\ pc = "loop"
    /\ script = "tiles"
    /\ idx = NumRecords + 1
    /\ pc' = "done"
    /\ UNCHANGED <<env, fs, idx, genLocals, counters, history, paced, wouldGen, cliOut>>

TilesNext ==
    \/ TilesNextRecord
    \/ TilesGenerateImage
    \/ TilesAfterGenerate
    \/ TilesDone

\* ---------------------------------------------------------- specifications
\* One invocation of one of the scripts.
Next ==
    \/ ImportCheck
    \/ WorldNext
    \/ AssetsNext
    \/ TilesNext

Spec == Init /\ [][Next]_vars

\* generate_image of generate-world-assets.py on its own, for every value
\* of its retries parameter.
InitGen ==
    /\ script = "world"
    /\ args \in {a \in ArgsSet : /\ ~a.dry_run /\ ~a.list /\ ~a.export_specs
                                 /\ a.category = "none"}
    /\ apiKey = TRUE
    /\ pil \in BOOLEAN
    /\ retries \in 0..MaxRetries
    /\ fs \in [Records -> {"absent", "old"}]
    /\ prevFs = fs
    /\ prevEnd = "none"
    /\ run = 1
    /\ Fresh
    /\ UnitIdle
    /\ pc = "gen"

NextGen ==
    \/ GenerateImageAttempt
    \/ GenerateImageWrite

SpecGen == InitGen /\ [][NextGen]_vars

\* The process is stopped from outside (KeyboardInterrupt, kill, power
\* loss) wherever it is; nothing is cleaned up.
Running == pc \in {"import", "main", "loop", "gen", "gen_write", "gen_ret"}

Interrupt ==
    /\ Running
    /\ pc' = "interrupted"
    /\ UNCHANGED <<env, fs, idx, genLocals, counters, history, paced, wouldGen, cliOut>>

\* The same command line is run again: a new process, the same options,
\* the files as the previous invocation left them.
Rerun ==
    /\ ~Running
    /\ run < MaxRuns
    /\ run' = run + 1
    /\ prevFs' = fs
    /\ prevEnd' = pc
    /\ pc' = IF script = "world" THEN "main" ELSE "import"
    /\ idx' = 1
    /\ attempt' = 0 /\ genResult' = FALSE /\ resps' = <<>> /\ waits' = <<>>
    /\ generated' = 0 /\ skipped' = 0 /\ failed' = 0 /\ processed' = 0
    /\ done' = 0
    /\ outcome' = [i \in Records |-> "none"]
    /\ calls' = [i \in Records |-> 0]
    /\ writes' = [i \in Records |-> 0]
    /\ posted' = [i \in Records |-> 0]
    /\ paced' = TRUE
    /\ wouldGen' = {}
    /\ listed' = <<>>
    /\ exported' = {}
    /\ target' = [width_px |-> 0, height_px |-> 0]
    /\ UNCHANGED <<script, args, apiKey, pil, retries, fs, raw, image, img, spec,
                   prompt, sent, scanned, upc>>

NextRerun ==
    \/ Next
    \/ Interrupt
    \/ Rerun

\* Successive invocations of a script with the same options, each possibly
\* interrupted. The empty --category runs as no --category does and is left
\* to Spec.
InitRerun == Init /\ args.category # ""

SpecRerun == InitRerun /\ [][NextRerun]_vars

\* generate_image of generate-world-assets.py run to its end on a given
\* sequence of answers of the service, from attempt att on:
\*   calls   the number of external calls made
\*   result  "True", "False", or "more" when the sequence is used up first
\*   retry   per failed attempt, whether a sleep and a retry follow it
RECURSIVE GenerateImageRun(_, _, _)
GenerateImageRun(answers, att, maxRetries) ==
    IF ~InRange(att, maxRetries)
    THEN [calls |-> att, result |-> "False", retry |-> <<>>]
    ELSE IF att + 1 > Len(answers)
    THEN [calls |-> att, result |-> "more", retry |-> <<>>]
    ELSE LET b == GenerateImageBody(answers[att + 1], att, maxRetries) IN
         IF b.write
         THEN [calls |-> att + 1, result |-> "True", retry |-> <<>>]
         ELSE LET rest == GenerateImageRun(answers, att + 1, maxRetries) IN
              [rest EXCEPT !.retry = <<b.wait > 0>> \o @]

\* ------------------------------------------------- post_process, in detail
\* white_mask = (r > 240) & (g > 240) & (b > 240)
WhiteThreshold == 240
\* near_white = (r > 220) & (g > 220) & (b > 220) & ~white_mask
NearWhiteThreshold == 220

\* The variables main and the scripts' loops work on, which the functions
\* studied on their own leave alone.
mainVars == <<script, args, apiKey, pil, retries, run, prevFs, prevEnd, fs, pc,
              idx, genLocals, counters, history, paced, wouldGen, cliOut>>

\* An RGBA pixel is a record of four uint8 values.  The channel values
\* tried lie on both sides of the two thresholds; every alpha is tried.
ChannelSamples == {0, NearWhiteThreshold, NearWhiteThreshold + 1, 225,
                   WhiteThreshold, WhiteThreshold + 1, 255}
Pixels == [r : ChannelSamples, g : ChannelSamples, b : ChannelSamples, a : 0..255]

\* The pixels tried where the size is what matters, and the values LANCZOS
\* resampling may give a pixel of the resized image.
FewPixels == {px \in [r : {0, 225, 255}, g : {0, 225, 255}, b : {0, 225, 255},
                      a : {0, 3, 4, 255}] : px.r = px.g /\ px.g = px.b}

\* Widths and heights of the images the service returns.
ImageSides == {16, 48, 1024}

\* The dims main hands to post_process: those of the entries of the
\* registry, as width_px and height_px.
Dims(entry) == entry[2].marketing_image.subject.physical_properties

CatalogDims ==
    UNION {{Dims(ALL_CATEGORIES[c][k]) : k \in 1..Len(ALL_CATEGORIES[c])} :
              c \in DOMAIN ALL_CATEGORIES}

\* (data[near_white, 3] * 0.3).astype(np.uint8): the product is a float64,
\* the cast drops its fraction.  For every uint8 a the float64 product
\* a * 0.3 truncates to the integer quotient of 3a by 10.
ScaleAlpha(a) == (a * 3) \div 10

\* Mutant: the near-white pixels are made transparent as the white ones.
AlphaCorrectAllZero(px) ==
    LET white_mask == px.r > WhiteThreshold /\ px.g > WhiteThreshold
                      /\ px.b > WhiteThreshold
        near_white == px.r > NearWhiteThreshold /\ px.g > NearWhiteThreshold
                      /\ px.b > NearWhiteThreshold /\ ~white_mask
    IN  [px EXCEPT !.a = IF white_mask \/ near_white THEN 0 ELSE @]

\* Mutant: the thresholds themselves count as above them.
AlphaCorrectInclusive(px) ==
    LET white_mask == px.r >= WhiteThreshold /\ px.g >= WhiteThreshold
                      /\ px.b >= WhiteThreshold
        near_white == px.r >= NearWhiteThreshold /\ px.g >= NearWhiteThreshold
                      /\ px.b >= NearWhiteThreshold /\ ~white_mask
        a1 == IF white_mask THEN 0 ELSE px.a
        a2 == IF near_white THEN ScaleAlpha(a1) ELSE a1
    IN  [px EXCEPT !.a = a2]

\* "Remove white/near-white backgrounds" on one pixel of data: the two
\* masks, then the two assignments to channel 3 in their order.
AlphaCorrect(px) ==
    LET white_mask == px.r > WhiteThreshold /\ px.g > WhiteThreshold
                      /\ px.b > WhiteThreshold
        near_white == px.r > NearWhiteThreshold /\ px.g > NearWhiteThreshold
                      /\ px.b > NearWhiteThreshold /\ ~white_mask
        a1 == IF white_mask THEN 0 ELSE px.a
        a2 == IF near_white THEN ScaleAlpha(a1) ELSE a1
    IN  [px EXCEPT !.a = a2]

\* Mutant: only the widths are compared.
ResizeNeededWidthOnly(size, dims) == size[1] # dims.width_px

\* img.size != (target_width, target_height)
ResizeNeeded(size, dims) == size # <<dims.width_px, dims.height_px>>

\* main() after generate_image returned True, and the head of
\* post_process: nothing with --no-post; the warning when PIL or numpy is
\* missing; otherwise the file is opened and converted to RGBA.
PostOpen ==
    /\ upc = "generated"
    /\ IF args.no_post THEN upc' = "kept" /\ UNCHANGED img
       ELSE IF ~pil THEN upc' = "warned" /\ UNCHANGED img
       ELSE upc' = "opened" /\ img' = image
    /\ UNCHANGED <<mainVars, raw, image, target, spec, prompt, sent, scanned>>

\* "Resize to target dimensions": img.resize when the size differs; the
\* pixel of the resized image is what the resampling makes of it.
PostResize ==
    /\ upc = "opened"
    /\ IF ResizeNeeded(img.size, target)
       THEN \E px \in FewPixels :
               img' = [size |-> <<target.width_px, target.height_px>>, px |-> px]
       ELSE UNCHANGED img
    /\ upc' = "sized"
    /\ UNCHANGED <<mainVars, raw, image, target, spec, prompt, sent, scanned>>

\* The background is cleaned in data and the result saved over the file.
PostSave ==
    /\ upc = "sized"
    /\ image' = [size |-> img.size, px |-> AlphaCorrect(img.px)]
    /\ upc' = "saved"
    /\ UNCHANGED <<mainVars, raw, img, target, spec, prompt, sent, scanned>>

NextPost ==
    \/ PostOpen
    \/ PostResize
    \/ PostSave

\* The part of the state that the functions studied on their own do not
\* use: generate-world-assets.py in generation mode, nothing done yet.
InitMainIdle ==
    /\ script = "world"
    /\ apiKey = TRUE
    /\ retries = DefaultRetries
    /\ fs = [i \in Records |-> "absent"]
    /\ prevFs = fs
    /\ prevEnd = "none"
    /\ run = 1
    /\ pc = "loop"
    /\ Fresh

\* post_process after a successful generate_image, for every size of the
\* image written, every dims of the registry, with and without --no-post
\* and PIL.
InitPost ==
    /\ InitMainIdle
    /\ args \in {NoArgs, [NoArgs EXCEPT !.no_post = TRUE]}
    /\ pil \in BOOLEAN
    /\ raw \in [size : ImageSides \X ImageSides, px : FewPixels]
    /\ image = raw
    /\ img = NoImage
    /\ target \in CatalogDims
    /\ spec = [marketing_image |-> <<>>]
    /\ prompt = <<>> /\ sent = <<>> /\ scanned = <<>>
    /\ upc = "generated"

SpecPost == InitPost /\ [][NextPost]_vars

\* post_process on an image that has the target size already, for every
\* pixel.
InitAlpha ==
    /\ InitMainIdle
    /\ args = NoArgs
    /\ pil = TRUE
    /\ target = Dims(ALL_CATEGORIES["tiles"][1])
    /\ raw \in [size : {<<target.width_px, target.height_px>>}, px : Pixels]
    /\ image = raw
    /\ img = NoImage
    /\ spec = [marketing_image |-> <<>>]
    /\ prompt = <<>> /\ sent = <<>> /\ scanned = <<>>
    /\ upc = "generated"

SpecAlpha == InitAlpha /\ [][NextPost]_vars

\* ------------------------------------------------- a walk over the registry
\* The entries of the registry in the order of "for cat_name, assets in
\* categories.items(): for filepath, spec in assets", categories being
\* ALL_CATEGORIES.
RECURSIVE EntriesFrom(_)
EntriesFrom(c) ==
    IF c > Len(CategoryNames) THEN <<>>
    ELSE ALL_CATEGORIES[CategoryNames[c]] \o EntriesFrom(c + 1)

AllEntries == EntriesFrom(1)

\* One pass of the inner loop of list_assets: the filepath of the next
\* entry is met.
ScanEntry ==
    /\ upc = "scan"
    /\ Len(scanned) < Len(AllEntries)
    /\ scanned' = Append(scanned, AllEntries[Len(scanned) + 1][1])
    /\ UNCHANGED <<mainVars, raw, image, img, target, spec, prompt, sent, upc>>

\* The loops are over: list_assets prints the total.
ScanEnd ==
    /\ upc = "scan"
    /\ Len(scanned) = Len(AllEntries)
    /\ upc' = "scanned"
    /\ UNCHANGED <<mainVars, raw, image, img, target, spec, prompt, sent, scanned>>

NextScan ==
    \/ ScanEntry
    \/ ScanEnd

InitScan ==
    /\ InitMainIdle
    /\ args \in {a \in ArgsSet : a.list /\ a.category = "none"}
    /\ pil \in BOOLEAN
    /\ raw = NoImage /\ image = NoImage /\ img = NoImage
    /\ target = [width_px |-> 0, height_px |-> 0]
    /\ spec = [marketing_image |-> <<>>]
    /\ prompt = <<>> /\ sent = <<>> /\ scanned = <<>>
    /\ upc = "scan"

SpecScan == InitScan /\ [][NextScan]_vars

\* ------------------------------------------------------------ build_prompt
\* A string is kept as the sequence of the pieces it is written from, the
\* text between the braces of an f-string and each value put in; joining
\* strings is joining the sequences.
RECURSIVE Join(_, _)
Join(parts, sep) ==
    IF parts = <<>> THEN <<>>
    ELSE IF Len(parts) = 1 THEN parts[1]
    ELSE parts[1] \o <<sep>> \o Join(Tail(parts), sep)

\* Mutant: the description is put before the title.
BuildPromptDescriptionFirst(s) ==
    LET mimg == s.marketing_image
        style == mimg.style
        subject == mimg.subject
        dims == subject.physical_properties
        prompt_parts == <<
            <<"Generate a single game asset image.">>,
            <<"Art style: ", style.art_direction, ".">>,
            <<"Type: ", style.extra, ".">>,
            <<"Description: ", style.description, ".">>,
            <<"Subject: ", mimg.meta.title, ".">>,
            <<"Dimensions: ", ToString(dims.width_px), "x",
              ToString(dims.height_px), " pixels", ".">>,
            <<"Must have transparent background (PNG with alpha channel).">>,
            <<"No text, no labels, no watermarks.", " Just the game asset sprite.">> >>
    IN  Join(prompt_parts, " ")

\* build_prompt: the eight parts in their order, joined by one space (mimg
\* is its local img).
BuildPrompt(s) ==
    LET mimg == s.marketing_image
        style == mimg.style
        subject == mimg.subject
        dims == subject.physical_properties
        prompt_parts == <<
            <<"Generate a single game asset image.">>,
            <<"Art style: ", style.art_direction, ".">>,
            <<"Type: ", style.extra, ".">>,
            <<"Subject: ", mimg.meta.title, ".">>,
            <<"Description: ", style.description, ".">>,
            <<"Dimensions: ", ToString(dims.width_px), "x",
              ToString(dims.height_px), " pixels", ".">>,
            <<"Must have transparent background (PNG with alpha channel).">>,
            <<"No text, no labels, no watermarks.", " Just the game asset sprite.">> >>
    IN  Join(prompt_parts, " ")

\* The specs of the registry.
CatalogSpecs == {AllEntries[k][2] : k \in 1..Len(AllEntries)}

\* Specs make_spec returns for arguments no entry of the registry has: an
\* empty description, a width or a height that is not positive.
OddSpecs ==
    {MakeSpec("Grass Tile", d, [width |-> w, height |-> h], "terrain", TILE_STYLE) :
        d \in {"", "Lush green grass"}, w \in {-1, 0, 48}, h \in {0, 48}}

\* main(): "prompt = build_prompt(spec)" for a record that is not skipped.
PromptBuild ==
    /\ upc = "spec"
    /\ prompt' = BuildPrompt(spec)
    /\ upc' = "built"
    /\ UNCHANGED <<mainVars, raw, image, img, target, spec, sent, scanned>>

\* main(): "success = generate_image(client, prompt, output_path)": the
\* prompt goes to the service as contents.
PromptCall ==
    /\ upc = "built"
    /\ sent' = Append(sent, prompt)
    /\ upc' = "called"
    /\ UNCHANGED <<mainVars, raw, image, img, target, spec, prompt, scanned>>

NextPrompt ==
    \/ PromptBuild
    \/ PromptCall

InitPrompt ==
    /\ InitMainIdle
    /\ args = NoArgs
    /\ pil = TRUE
    /\ raw = NoImage /\ image = NoImage /\ img = NoImage
    /\ target = [width_px |-> 0, height_px |-> 0]
    /\ spec \in CatalogSpecs \cup OddSpecs
    /\ prompt = <<>> /\ sent = <<>> /\ scanned = <<>>
    /\ upc = "spec"

SpecPrompt == InitPrompt /\ [][NextPrompt]_vars

\* ------------------------------------------------- export_specs, in detail
\* The pairs (cat_name, filepath) of "for cat_name, assets in
\* categories.items(): for filepath, spec in assets", from the c-th
\* category of the registry on.
RECURSIVE PairsFrom(_)
PairsFrom(c) ==
    IF c > Len(CategoryNames) THEN <<>>
    ELSE [k \in 1..Len(ALL_CATEGORIES[CategoryNames[c]]) |->
              <<CategoryNames[c], ALL_CATEGORIES[CategoryNames[c]][k][1]>>]
         \o PairsFrom(c + 1)

\* The same pairs for the dict categories main builds from --category: the
\* whole registry, or the one category named.
ExportPairs ==
    IF ~CategoryGiven THEN PairsFrom(1)
    ELSE [k \in 1..Len(ALL_CATEGORIES[args.category]) |->
              <<args.category, ALL_CATEGORIES[args.category][k][1]>>]

\* One pass of the inner loop of export_specs: the spec of the next entry
\* is dumped to cat_dir / (stem + ".json"); a file of that name is
\* overwritten.
ExportEntry ==
    /\ upc = "export"
    /\ Len(scanned) < Len(ExportPairs)
    /\ LET pair == ExportPairs[Len(scanned) + 1] IN
         /\ scanned' = Append(scanned, pair[2])
         /\ exported' = exported \cup {ExportFile(pair[1], pair[2])}
    /\ UNCHANGED <<script, args, apiKey, pil, retries, run, prevFs, prevEnd,
                   fs, pc, idx, genLocals, counters, history, paced, wouldGen,
                   listed, raw, image, img, target, spec, prompt, sent, upc>>

\* The loops are over: "Exported specs to ..." is printed.
ExportEnd ==
    /\ upc = "export"
    /\ Len(scanned) = Len(ExportPairs)
    /\ upc' = "exported"
    /\ UNCHANGED <<mainVars, raw, image, img, target, spec, prompt, sent, scanned>>

NextExport ==
    \/ ExportEntry
    \/ ExportEnd

\* --export-specs with no --category or with any category of the registry,
\* into an empty directory.
InitExport ==
    /\ InitMainIdle
    /\ args \in {[NoArgs EXCEPT !.export_specs = TRUE, !.category = c] :
                    c \in {"none"} \cup DOMAIN ALL_CATEGORIES}
    /\ pil \in BOOLEAN
    /\ raw = NoImage /\ image = NoImage /\ img = NoImage
    /\ target = [width_px |-> 0, height_px |-> 0]
    /\ spec = [marketing_image |-> <<>>]
    /\ prompt = <<>> /\ sent = <<>> /\ scanned = <<>>
    /\ upc = "export"

SpecExport == InitExport /\ [][NextExport]_vars

\* ------------------------------------------------------------- progress
\* A running script takes its next step: nothing but the service and the
\* sleeps makes it wait, and both return.
SpecLive == Init /\ [][Next]_vars /\ WF_vars(Next)

\* ------------------------------- post_process of generate-new-tiles.py
\* white_mask = (r > 230) & (g > 230) & (b > 230)
TilesWhiteThreshold == 230
\* near_white = (r > 200) & (g > 200) & (b > 200) & ~white_mask
TilesNearWhiteThreshold == 200
\* data[near_white, 3] = 100
TilesNearWhiteAlpha == 100
\* img.resize((128, 128), Image.Resampling.LANCZOS)
TilesSide == 128

\* "Remove white/near-white backgrounds" of generate-new-tiles.py on one
\* pixel of data.
TilesAlphaCorrect(px) ==
    LET white_mask == px.r > TilesWhiteThreshold /\ px.g > TilesWhiteThreshold
                      /\ px.b > TilesWhiteThreshold
        near_white == px.r > TilesNearWhiteThreshold
                      /\ px.g > TilesNearWhiteThreshold
                      /\ px.b > TilesNearWhiteThreshold /\ ~white_mask
        a1 == IF white_mask THEN 0 ELSE px.a
        a2 == IF near_white THEN TilesNearWhiteAlpha ELSE a1
    IN  [px EXCEPT !.a = a2]

\* The head of post_process of generate-new-tiles.py: the warning when PIL
\* or numpy is missing, otherwise the file is opened and converted.
TilesPostOpen ==
    /\ upc = "tiles_generated"
    /\ IF ~pil THEN upc' = "tiles_warned" /\ UNCHANGED img
       ELSE upc' = "tiles_opened" /\ img' = image
    /\ UNCHANGED <<mainVars, raw, image, target, spec, prompt, sent, scanned>>

\* img.resize((128, 128), LANCZOS) whatever the size: an image that is
\* 128x128 already is copied as it is, the pixel of any other is what the
\* resampling makes of it.
TilesPostResize ==
    /\ upc = "tiles_opened"
    /\ IF img.size = <<TilesSide, TilesSide>>
       THEN UNCHANGED img
       ELSE \E px \in FewPixels :
               img' = [size |-> <<TilesSide, TilesSide>>, px |-> px]
    /\ upc' = "tiles_sized"
    /\ UNCHANGED <<mainVars, raw, image, target, spec, prompt, sent, scanned>>

\* The background is cleaned in data and the result saved over the file.
TilesPostSave ==
    /\ upc = "tiles_sized"
    /\ image' = [size |-> img.size, px |-> TilesAlphaCorrect(img.px)]
    /\ upc' = "tiles_saved"
    /\ UNCHANGED <<mainVars, raw, img, target, spec, prompt, sent, scanned>>

NextTilesPost ==
    \/ TilesPostOpen
    \/ TilesPostResize
    \/ TilesPostSave

\* post_process of either script after a successful generate_image.
InitPostBoth ==
    /\ InitMainIdle
    /\ args = NoArgs
    /\ pil \in BOOLEAN
    /\ raw \in [size : (ImageSides \cup {TilesSide}) \X (ImageSides \cup {TilesSide}),
                px : FewPixels]
    /\ image = raw
    /\ img = NoImage
    /\ target = Dims(ALL_CATEGORIES["tiles"][1])
    /\ spec = [marketing_image |-> <<>>]
    /\ prompt = <<>> /\ sent = <<>> /\ scanned = <<>>
    /\ upc \in {"generated", "tiles_generated"}

SpecPostBoth == InitPostBoth /\ [][NextPost \/ NextTilesPost]_vars

\* ------------------------------------------------------------------ claims
\* main() has taken its decision about record i in this invocation.
Reached(i) ==
    /\ i \in Selected
    /\ \/ i < idx
       \/ i = idx /\ pc \in {"gen", "gen_write", "gen_ret", "crashed"}

\* The invocation is a generation run: no --list, --export-specs or
\* --dry-run, a known category or none.
GenerationMode == Dispatch \in {"no_key", "generate"}

Stored == {"partial", "raw", "rawbad", "processed"}

\* C1: in a generation run of any of the three scripts, a record whose file
\* exists when the loop reaches it, force being off, is reported Skipped,
\* and for it no external call was made, the file was not written and
\* post_process was not invoked.  (A run touches a file only while at its
\* own record, so the file found is the file the run started with: the
\* first conjunct.)
C1_SkipIfExists ==
    /\ (pc = "loop" /\ idx \in Records) => fs[idx] = prevFs[idx]
    /\ \A i \in Records :
         (Reached(i) /\ prevFs[i] # "absent" /\ ~args.force)
           => /\ outcome[i] = "Skipped"
              /\ calls[i] = 0
              /\ writes[i] = 0
              /\ posted[i] = 0
              /\ fs[i] = prevFs[i]

\* A finished generation run of generate-world-assets.py that skipped the
\* existing first record and called the service for the second.
C1_Witness ==
    /\ script = "world" /\ pc = "done" /\ ~args.force /\ ~args.dry_run
    /\ NumRecords >= 2
    /\ prevFs[1] = "old" /\ outcome[1] = "Skipped" /\ skipped = 1
    /\ calls[2] > 0

\* C2 as stated: in an invocation that follows one that ran to its summary
\* with the same options, no asset that the earlier one wrote is Generated, and each one the loop has passed
\* is Skipped.
C2_IdempotentAnyOptions ==
    (run > 1 /\ prevEnd = "done") =>
      \A i \in Records :
        prevFs[i] \in {"raw", "rawbad", "processed"}
          => /\ outcome[i] # "Generated"
             /\ (i < idx /\ i \in Selected /\ GenerationMode)
                  => outcome[i] = "Skipped"

\* C2, amended: the same with force off, for every asset on disk when the
\* later invocation starts and however the earlier one ended.  Nor is the service called or the file
\* written for such an asset.
C2_IdempotentWithoutForce ==
    (run > 1 /\ ~args.force) =>
      \A i \in Records :
        prevFs[i] # "absent"
          => /\ outcome[i] \in {"none", "Skipped"}
             /\ (i < idx /\ i \in Selected /\ GenerationMode)
                  => outcome[i] = "Skipped"
             /\ calls[i] = 0
             /\ writes[i] = 0
             /\ fs[i] = prevFs[i]

\* The second invocation has ended and skipped an asset the first one
\* generated and post-processed.
C2_Witness ==
    /\ script = "world" /\ run = 2 /\ prevEnd = "done" /\ pc = "done"
    /\ ~args.force
    /\ \E i \in Records : prevFs[i] = "processed" /\ outcome[i] = "Skipped"

\* C3: generate_image makes at most retries + 1 external calls, none of
\* them after an answer with an image, and returns False only when all
\* retries + 1 answers were without image; so it returns True exactly when
\* an image comes among the first retries + 1 answers.
C3_RetryBudget ==
    /\ calls[idx] = Len(resps)
    /\ Len(resps) <= retries + 1
    /\ \A j \in 1..(Len(resps) - 1) : resps[j] # "image"
    /\ pc = "gen_write" => (Len(resps) >= 1 /\ resps[Len(resps)] = "image")
    /\ pc = "gen_ret" =>
         /\ Len(resps) >= 1
         /\ genResult = (resps[Len(resps)] = "image")
         /\ ~genResult => Len(resps) = retries + 1
         /\ genResult => writes[idx] = 1

\* With the default retries = 2 the service failed twice and then returned
\* an image: three calls, True.
C3_Witness ==
    /\ pc = "gen_ret" /\ retries = DefaultRetries
    /\ resps = <<"raise", "noimage", "image">>
    /\ genResult /\ calls[idx] = 3

\* C4 as stated: a generation run that has stopped, other than for a
\* missing API key, has given every record an outcome and printed the
\* summary.
C4_FailureIsolation ==
    (pc \notin {"import", "main", "loop", "gen", "gen_write", "gen_ret", "exit1"}
       /\ GenerationMode)
      => /\ pc = "done"
         /\ \A i \in Selected : outcome[i] # "none"

\* C5 as stated: when generate-world-assets.py starts a record, every
\* external call made so far has been followed by time.sleep(args.delay).
C5_PacedAfterEveryRecord ==
    (script = "world" /\ pc = "loop" /\ idx \in Records) => paced

\* C6 as stated: within one record each sleep between attempts is longer
\* than the sleep before it.
C6_LaterWaitsLonger ==
    \A j \in 1..(Len(waits) - 1) :
      waits[j + 1] > 0 => waits[j] < waits[j + 1]

\* C6, amended: the sleep after a failed attempt is set by the kind of
\* failure, 2 seconds after an answer without image and 3 seconds after an
\* exception, whatever the number of the retry; nothing is slept after the
\* last attempt of the range.
C6_WaitByFailureKind ==
    /\ Len(waits) <= Len(resps)
    /\ \A j \in 1..Len(waits) :
         waits[j] = IF j - 1 >= retries THEN 0
                    ELSE IF resps[j] = "noimage" THEN 2
                    ELSE 3

\* Two sleeps in one record, the later one the shorter.
C6_Witness ==
    /\ Len(waits) >= 2 /\ waits[1] = 3 /\ waits[2] = 2
    /\ resps[1] = "raise" /\ resps[2] = "noimage"

\* The answers with every exception replaced by an answer without image.
ErrorsAsEmpty(answers) ==
    [j \in 1..Len(answers) |->
       IF answers[j] = "raise" THEN "noimage" ELSE answers[j]]

\* C7: when generate_image has returned, the same call on the same answers
\* with each exception replaced by an answer without image makes as many
\* external calls, is followed by a retry after the same attempts, and
\* returns the same value.
C7_EmptyAsError ==
    pc = "gen_ret" =>
      LET other == GenerateImageRun(ErrorsAsEmpty(resps), 0, retries) IN
      /\ other.calls = Len(resps)
      /\ other.result = (IF genResult THEN "True" ELSE "False")
      /\ other.retry = [j \in 1..Len(waits) |-> waits[j] > 0]

\* generate_image has returned False after exceptions only, with retries.
C7_Witness ==
    /\ pc = "gen_ret" /\ ~genResult /\ retries >= 2
    /\ \A j \in 1..Len(resps) : resps[j] = "raise"

\* C8: all through a dry run no external call is made and no file is
\* created or changed, and the paths it has printed when it ends are the
\* records without a file, or all records under --force.
C8_DryRun ==
    (script = "world" /\ Dispatch = "dry_run") =>
      /\ fs = prevFs
      /\ \A i \in Records : calls[i] = 0 /\ writes[i] = 0 /\ posted[i] = 0
      /\ exported = {}
      /\ pc \in {"main", "done"}
      /\ pc = "done" =>
           wouldGen = IF args.force THEN Selected
                      ELSE {i \in Selected : prevFs[i] = "absent"}

\* A dry run without --force has printed some records and left out others.
C8_Witness ==
    /\ script = "world" /\ Dispatch = "dry_run" /\ ~args.force /\ pc = "done"
    /\ wouldGen # {} /\ wouldGen # Selected

C10_Resumable ==
    (script = "world" /\ run > 1 /\ prevEnd = "interrupted" /\ ~args.force
       /\ ~args.no_post /\ GenerationMode /\ pil)
      => /\ \A i \in Records :
              prevFs[i] \in {"old", "processed"} => calls[i] = 0
         /\ pc = "done" =>
              \A i \in Records : fs[i] \in {"absent", "old", "processed"}

\* Nothing has been done by this invocation: no record counted or reported,
\* no file touched, no external call, nothing listed, exported or printed by
\* a dry run.
NoWork ==
    /\ fs = prevFs
    /\ processed = 0
    /\ \A i \in Records : /\ outcome[i] = "none"
                          /\ calls[i] = 0
                          /\ writes[i] = 0
                          /\ posted[i] = 0
    /\ listed = <<>>
    /\ exported = {}
    /\ wouldGen = {}

\* C11: when --category of generate-world-assets.py is given a word that is
\* not a key of the registry, then whatever the other options (list, export,
\* dry run, generation) the process only ever stands before its tests or
\* has left with status 1, and it has done no work: no record processed, no
\* file written, nothing listed or exported, no external call.
C11_UnknownCategory ==
    (script = "world" /\ args.category \notin KnownCategories \cup {"none"})
        => /\ pc \in {"main", "exit1"}
           /\ NoWork

\* The options ask for a mode that needs no generation.
OfflineMode == args.list \/ args.export_specs \/ args.dry_run

\* --category is absent or names a category of the registry.
CategoryAccepted == ~CategoryGiven \/ args.category \in KnownCategories

\* C12: with API_KEY absent, generate-world-assets.py in list, export-specs
\* or dry-run mode never leaves with an error and ends normally, having
\* listed, exported or printed the selected records; in generation mode
\* (and in generate-assets.py and generate-new-tiles.py, which only
\* generate) the process leaves with status 1 having made no external call,
\* processed no record and written no file.
C12_CredentialOnlyForGeneration ==
    ~apiKey =>
        /\ (script = "world" /\ CategoryAccepted /\ OfflineMode)
              => /\ pc \in {"main", "done"}
                 /\ pc = "done" =>
                       \/ args.list /\ DOMAIN listed = Selected
                       \/ ~args.list /\ args.export_specs
                            /\ Cardinality(exported) = Cardinality(Selected)
                       \/ ~args.list /\ ~args.export_specs
                            /\ wouldGen = {i \in Selected : ~SkipsRecord(i)}
                 /\ \A i \in Records : calls[i] = 0
        /\ (script # "world" \/ (CategoryAccepted /\ ~OfflineMode))
              => /\ pc \in {"import", "main", "exit1"}
                 /\ NoWork

\* A run without API_KEY has exported the specs and ended normally.
C12_Witness ==
    /\ script = "world"
    /\ ~apiKey
    /\ ~args.list /\ args.export_specs
    /\ pc = "done"
    /\ exported # {}

\* The exit status of the process once it is over: 0 after main() returns,
\* 1 after sys.exit(1) and after an exception that nothing catches; -1
\* stands for a process that has no status yet.
ExitStatus ==
    CASE pc = "done" -> 0
      [] pc \in {"exit1", "crashed"} -> 1
      [] OTHER -> -1

\* C13: a generation run of generate-world-assets.py with an accepted
\* category and API_KEY present ends with status 0 whatever happened to its
\* records, and a world run ends with a non-zero status only when the
\* category is unknown or when API_KEY is missing in generation mode.
C13_ExitStatus ==
    script = "world" =>
        /\ (CategoryAccepted /\ ~OfflineMode /\ apiKey) => ExitStatus \in {-1, 0}
        /\ ExitStatus > 0 => \/ ~CategoryAccepted
                             \/ ~OfflineMode /\ ~apiKey

\* C16: in a generation run of generate-world-assets.py without PIL/numpy
\* and with post-processing on, post_process is invoked for every record
\* whose generation succeeded and returns without an exception: the file is
\* left as generate_image wrote it, the record is counted Generated, and
\* the loop has moved on to the next record.
C16_DegradedMode ==
    (script = "world" /\ GenerationMode /\ ~pil /\ ~args.no_post)
        => /\ pc # "crashed"
           /\ \A i \in Records :
                outcome[i] = "Generated"
                   => /\ posted[i] = 1
                      /\ fs[i] \in {"raw", "rawbad"}
                      /\ i < idx
           /\ generated = Cardinality({i \in Records : outcome[i] = "Generated"})

\* Without PIL the first record was generated and post_process was invoked
\* for it; the run is over or at a later record.
C16_Witness ==
    /\ script = "world" /\ ~pil /\ ~args.no_post
    /\ outcome[1] = "Generated"
    /\ posted[1] = 1
    /\ fs[1] = "raw"
    /\ pc = "done"
    /\ \E i \in Records : i > 1 /\ outcome[i] # "none"

\* post_process has returned, or main went on without calling it.
PostOver == upc \in {"saved", "warned", "kept"}

HasRGB(px, r, g, b) == px.r = r /\ px.g = g /\ px.b = b

\* C15 as stated: once post_process has saved, whatever the alpha a pixel
\* had in data, a pixel with RGB (255,255,255) has alpha 0, a pixel with RGB
\* (225,225,225) has an alpha strictly below the one it had and not 0, and a
\* pixel with RGB (0,0,0) has the alpha it had.
C15_AlphaRuleEveryAlpha ==
    upc = "saved" =>
        /\ HasRGB(img.px, 255, 255, 255) => image.px.a = 0
        /\ HasRGB(img.px, 225, 225, 225)
              => image.px.a < img.px.a /\ image.px.a # 0
        /\ HasRGB(img.px, 0, 0, 0) => image.px.a = img.px.a

\* C15, amended: the same for RGB (255,255,255) and (0,0,0) and every
\* alpha; a pixel with RGB (225,225,225) has its alpha strictly reduced and
\* not zeroed when the alpha was 4 or more, and has alpha 0 when the alpha
\* was 0, 1, 2 or 3.  The colour channels are never changed.
C15_AlphaRule ==
    upc = "saved" =>
        /\ HasRGB(img.px, 255, 255, 255) => image.px.a = 0
        /\ (HasRGB(img.px, 225, 225, 225) /\ img.px.a >= 4)
              => image.px.a < img.px.a /\ image.px.a > 0
        /\ (HasRGB(img.px, 225, 225, 225) /\ img.px.a < 4) => image.px.a = 0
        /\ HasRGB(img.px, 0, 0, 0) => image.px.a = img.px.a
        /\ HasRGB(image.px, img.px.r, img.px.g, img.px.b)

\* A pixel (225,225,225) of alpha 200 was saved with alpha 60.
C15_Witness ==
    /\ upc = "saved"
    /\ HasRGB(img.px, 225, 225, 225)
    /\ img.px.a = 200
    /\ image.px.a = 60

\* C17: the filepaths met on a walk over all categories of ALL_CATEGORIES
\* are pairwise different.
C17_PathsUnique ==
    \A i, j \in 1..Len(scanned) : i # j => scanned[i] # scanned[j]

\* The walk has met all 111 entries, among them the two files named
\* tavern.png.
C17_Witness ==
    /\ upc = "scanned"
    /\ Len(scanned) = 111
    /\ \E i, j \in 1..Len(scanned) :
          /\ i # j
          /\ scanned[i].stem = "tavern" /\ scanned[j].stem = "tavern"

\* The pieces of needle occur in hay in their order, possibly with other
\* pieces between them.
RECURSIVE InOrder(_, _)
InOrder(needle, hay) ==
    IF needle = <<>> THEN TRUE
    ELSE IF hay = <<>> THEN FALSE
    ELSE IF Head(needle) = Head(hay) THEN InOrder(Tail(needle), Tail(hay))
    ELSE InOrder(needle, Tail(hay))

\* The style augmentation of a category of assets.
StyleOf(variant) ==
    CASE variant = "terrain" -> TILE_STYLE
      [] variant = "building" -> BUILDING_STYLE
      [] variant = "resource" -> RESOURCE_STYLE
      [] variant = "item" -> ITEM_STYLE
      [] variant = "character" -> CHAR_STYLE
      [] variant = "ui_minimap" -> MINIMAP_STYLE
      [] variant = "ui_emotion" -> EMOTION_STYLE
      [] variant = "ui_action" -> ACTION_STYLE
      [] variant = "ui_bubble" -> BUBBLE_STYLE

\* C19: for every spec of the registry the prompt build_prompt returned is
\* made of, in this order, the single-asset instruction, STYLE_PREFIX, the
\* style of the spec's category, the title, the description, the
\* dimensions written "<width>x<height> pixels" with the spec's own
\* width_px and height_px, the transparency requirement and the exclusion
\* of text, labels and watermarks.
C19_PromptContentAndOrder ==
    (upc \in {"built", "called"} /\ spec \in CatalogSpecs) =>
        LET m == spec.marketing_image
            w == ToString(m.subject.physical_properties.width_px)
            h == ToString(m.subject.physical_properties.height_px)
        IN  /\ InOrder(<<"Generate a single game asset image.",
                         STYLE_PREFIX,
                         StyleOf(m.subject.variant),
                         m.meta.title,
                         m.style.description,
                         w, "x", h, " pixels",
                         "Must have transparent background (PNG with alpha channel).",
                         "No text, no labels, no watermarks.">>, prompt)
            /\ \E k \in 1..Len(prompt) :
                  /\ k + 3 <= Len(prompt)
                  /\ SubSeq(prompt, k, k + 3) = <<w, "x", h, " pixels">>

\* The prompt of the first building, 96 wide and 128 high, has been built.
C19_Witness ==
    /\ upc = "built"
    /\ spec = ALL_CATEGORIES["buildings"][1][2]
    /\ \E k \in 1..Len(prompt) :
          /\ k + 3 <= Len(prompt)
          /\ SubSeq(prompt, k, k + 3) = <<"96", "x", "128", " pixels">>

\* The spec has no description or a width or height that is not positive.
Malformed(s) ==
    \/ s.marketing_image.style.description = ""
    \/ s.marketing_image.subject.physical_properties.width_px <= 0
    \/ s.marketing_image.subject.physical_properties.height_px <= 0

\* C20: for a spec with an empty description or a width or height that is
\* not positive, no prompt is ever built and nothing is handed to the
\* service: main stops at the spec.
C20_InvalidSpecRejected ==
    Malformed(spec) =>
        /\ upc \notin {"built", "called"}
        /\ prompt = <<>>
        /\ sent = <<>>

\* The first directory of the relative path of an entry: the directory of
\* its category under ASSETS_DIR.
TopDir(parent) ==
    CASE parent \in {"ui", "ui/minimap_icons", "ui/emotion_bubbles",
                     "ui/action_icons"} -> "ui"
      [] OTHER -> parent

C22_PostProcessGating ==
    (script = "world" /\ GenerationMode) =>
        \A i \in Records :
            /\ posted[i] <= 1
            /\ posted[i] = 1 <=> (outcome[i] = "Generated" /\ ~args.no_post)
            /\ outcome[i] \in {"none", "Skipped", "Failed"} => posted[i] = 0
            /\ posted[i] = 1 => writes[i] = 1 /\ calls[i] >= 1
            /\ (posted[i] = 1 /\ \A j \in Records : j > i => posted[j] = 0)
                  => target = Dims(RecordEntry(i))

\* The first record was Skipped and the second Generated: post_process was
\* invoked for the second only, with the dims of a building.
C22_Witness ==
    /\ script = "world" /\ GenerationMode
    /\ outcome[1] = "Skipped" /\ posted[1] = 0
    /\ outcome[2] = "Generated" /\ posted[2] = 1
    /\ target = [width_px |-> 96, height_px |-> 128]

\* The classes of a pixel by its colour channels alone.
AllAbove(px, t) == px.r > t /\ px.g > t /\ px.b > t

\* C23: once post_process of generate-world-assets.py has saved, a pixel
\* of data with R, G and B all above 240 has alpha 0; one with all three
\* above 220 but not all above 240 has alpha floor(0.3 * old alpha); any
\* other pixel, one channel at least being 220 or less, has the alpha it
\* had; and R, G and B are what they were.
C23_TwoThresholdPartition ==
    upc = "saved" =>
        LET old == img.px
            new == image.px
        IN  /\ AllAbove(old, 240) => new.a = 0
            /\ (AllAbove(old, 220) /\ ~AllAbove(old, 240))
                  => 10 * new.a <= 3 * old.a /\ 3 * old.a < 10 * (new.a + 1)
            /\ ~AllAbove(old, 220) => new.a = old.a
            /\ new.r = old.r /\ new.g = old.g /\ new.b = old.b

\* A pixel (240,240,240), not white but near-white, of alpha 100 is saved
\* with alpha 30.
C23_Witness ==
    /\ upc = "saved"
    /\ img.px = [r |-> 240, g |-> 240, b |-> 240, a |-> 100]
    /\ image.px.a = 30

\* The category value of an entry of the registry.
Variant(entry) == entry[2].marketing_image.subject.variant

\* The category values of the registry.
Variants == {"terrain", "building", "resource", "item", "character",
             "ui_minimap", "ui_emotion", "ui_bubble", "ui_action"}

\* C24: among the entries a walk over the registry has met, each has one of
\* the nine category values, a positive width_px and a positive height_px,
\* and any two with the same category value have the same width_px and
\* height_px.
C24_DimsPerCategory ==
    \A i, j \in 1..Len(scanned) :
        /\ scanned[i] = AllEntries[i][1]
        /\ Variant(AllEntries[i]) \in Variants
        /\ Dims(AllEntries[i]).width_px > 0
        /\ Dims(AllEntries[i]).height_px > 0
        /\ Variant(AllEntries[i]) = Variant(AllEntries[j])
              => Dims(AllEntries[i]) = Dims(AllEntries[j])

\* The walk is over and has met entries of all nine category values.
C24_Witness ==
    /\ upc = "scanned"
    /\ Len(scanned) = Len(AllEntries)
    /\ {Variant(AllEntries[k]) : k \in 1..Len(scanned)} = Variants
    /\ \E i, j \in 1..Len(scanned) :
          /\ i # j
          /\ Variant(AllEntries[i]) = "ui_bubble"
          /\ Dims(AllEntries[i]) = [width_px |-> 64, height_px |-> 48]
          /\ Variant(AllEntries[j]) = "ui_minimap"
          /\ Dims(AllEntries[j]) = [width_px |-> 12, height_px |-> 12]

\* The generation run is over: the summary was printed, or an exception
\* ended main().
RunOver == pc \in {"done", "crashed"}

\* C25: in a generation run of generate-world-assets.py the three counters
\* count the records reported Generated, Skipped and Failed, so their sum
\* is the number of records that have their outcome; only selected records
\* get one; and when the run is over every selected record has one, the sum
\* being the number of selected records.
C25_OutcomeAccounting ==
    (script = "world" /\ Dispatch = "generate") =>
        /\ generated = Cardinality({i \in Records : outcome[i] = "Generated"})
        /\ skipped = Cardinality({i \in Records : outcome[i] = "Skipped"})
        /\ failed = Cardinality({i \in Records : outcome[i] = "Failed"})
        /\ \A i \in Records \ Selected : outcome[i] = "none"
        /\ RunOver =>
              /\ \A i \in Selected : outcome[i] \in {"Skipped", "Generated", "Failed"}
              /\ generated + skipped + failed = Cardinality(Selected)

RECURSIVE CallsUpTo(_)
CallsUpTo(n) == IF n = 0 THEN 0 ELSE calls[n] + CallsUpTo(n - 1)

\* The records the run has not skipped: those it has started to generate.
NonSkipped == {i \in Selected : Reached(i) /\ outcome[i] # "Skipped"}

\* All through a generation run of generate-world-assets.py the external
\* calls are at most (retries + 1) times the records not skipped, and no
\* sleep follows attempt number retries + 1 of a record.
CallBound ==
    (script = "world" /\ Dispatch = "generate") =>
        /\ CallsUpTo(NumRecords) <= (retries + 1) * Cardinality(NonSkipped)
        /\ \A j \in 1..Len(waits) : j = retries + 1 => waits[j] = 0

\* C27: whatever the service answers, a generation run of
\* generate-world-assets.py ends with the summary, and all through it the
\* bound on the calls and the absence of a sleep after the last attempt
\* hold.
C27_TerminationAndCallBound ==
    /\ []CallBound
    /\ (script = "world" /\ Dispatch = "generate") ~> (pc = "done")

\* C28: once post_process of generate-world-assets.py or of
\* generate-new-tiles.py has saved, the alpha of a pixel is at most the
\* alpha it had in data before the background was cleaned.
C28_AlphaNeverIncreases ==
    upc \in {"saved", "tiles_saved"} => image.px.a <= img.px.a

====
